---- MODULE Spec2Model ----
(***************************************************************************)
(* A model of the lock-free allocator of lrmichael.cpp: the per-class heap *)
(* (active pointer, partial list), the superblock descriptors and their    *)
(* anchors, the descriptor pool, the page map and the page provider.       *)
(* Every atomic load, store and compare-and-swap of the source is one step *)
(* of the thread that executes it; accesses to memory that only the        *)
(* executing thread can reach are folded into the neighbouring step.       *)
(***************************************************************************)
EXTENDS Integers, FiniteSets, Sequences, TLC

(***************************************************************************)
(* Bounds of the model.                                                    *)
(***************************************************************************)
NThreads == 2
MaxMallocs == 3
MaxDescBlocks == 3
MaxLarge == 1
MaxRefusals == 1
WakeRounds == 2
PushRounds == 1
AbaRounds == 3
ReuseRounds == 4

(***************************************************************************)
(* Program constants.                                                      *)
(***************************************************************************)
SB_ACTIVE == 0
SB_FULL == 1
SB_PARTIAL == 2
SB_EMPTY == 3
CREDITS_MAX == 64
AVAIL_BITS == 25
COUNT_BITS == 25
TAG_BITS == 12
\* descriptors carved out of one DESCRIPTOR_BLOCK_SZ region
DescPerBlock == 2
\* page size, in address units
PAGE == 2
\* the size classes the modelled heap is drawn from: block size and
\* superblock size, for 2 and for 3 blocks per superblock
ClassBlockSize == 2
Classes == {[blockSize |-> ClassBlockSize, sbSize |-> 2 * ClassBlockSize],
            [blockSize |-> ClassBlockSize, sbSize |-> 3 * ClassBlockSize]}

Threads == 1..NThreads
NumSlots == MaxMallocs
Slots == 1..NumSlots
\* the provider places regions SlotSize apart; the largest region requested fits
SlotSize == 8
Descs == 1..(DescPerBlock * MaxDescBlocks)

Pow2(n) == 2^n
Min(a, b) == IF a < b THEN a ELSE b

\* the page provider hands out page-aligned regions, one per slot; nothing is
\* mapped at the addresses below the first slot (the null pointer is address 0)
FirstBase == 6
SlotBase(s) == FirstBase + (s - 1) * SlotSize
MaxAddr == SlotBase(NumSlots) + SlotSize
Addrs == 0..MaxAddr
SlotOf(a) == IF a < FirstBase \/ a >= MaxAddr THEN 0
             ELSE ((a - FirstBase) \div SlotSize) + 1
PageOf(a) == a \div PAGE
Pages == 0..PageOf(MaxAddr)

\* an indeterminate value: what a read of a never-written or user-owned word yields
Garbage == -1
GarbageVals(sc) == 0..(sc.sbSize \div sc.blockSize)

Node(d, c) == [desc |-> d, counter |-> c]
NullNode == Node(0, 0)
MkAnchor(s, a, c, t) == [state |-> s, avail |-> a, count |-> c, tag |-> t]
ZeroAnchor == MkAnchor(0, 0, 0, 0)
MkActive(d, c) == [desc |-> d, credits |-> c]
NullActive == MkActive(0, 0)

VARIABLES
    active,        \* heap.active, decoded: descriptor (0 is null) and credits
    partialList,   \* heap.partialList: {desc, counter}
    sizeclass,     \* heap.sizeclass: block size and superblock size
    AvailDesc,     \* head of the descriptor recycle list: {desc, counter}
    nextFree,      \* Descriptor::nextFree
    nextPartial,   \* Descriptor::nextPartial
    anchor,        \* Descriptor::anchor
    superblock,    \* Descriptor::superblock (an address, 0 is null)
    dheap,         \* Descriptor::heap: "heap", or "null" for a large allocation
    blockSize,     \* Descriptor::blockSize
    maxcount,      \* Descriptor::maxcount
    carved,        \* number of descriptor regions obtained from the page provider
    pagemap,       \* sPageMap: page -> descriptor (0 is null)
    mapped,        \* page provider: the slots currently handed out
    mem,           \* first word of each block (the intrusive free-list link)
    pc,            \* per thread: the statement it executes next
    loc,           \* per thread: the local variables of the running call
    live,          \* blocks returned by malloc and not yet passed to free
    nmallocs,      \* number of malloc and posix_memalign calls started
    nlarge,        \* how many of them were large or posix_memalign calls
    nrefused,      \* number of requests the page provider has refused
    hist           \* history: what the calls have done so far

vars == <<active, partialList, sizeclass, AvailDesc, nextFree, nextPartial, anchor,
          superblock, dheap, blockSize, maxcount, carved, pagemap, mapped, mem,
          pc, loc, live, nmallocs, nlarge, nrefused, hist>>

heapVars == <<active, partialList, sizeclass>>
poolVars == <<AvailDesc, nextFree, carved>>
descVars == <<anchor, superblock, dheap, blockSize, maxcount>>
callVars == <<nmallocs, nlarge, nrefused>>

NoLoc == [oldActive |-> NullActive, oldCredits |-> 0, desc |-> 0,
          oldAnchor |-> ZeroAnchor, next |-> 0, credits |-> 0, ptr |-> 0,
          oldHead |-> NullNode, newHead |-> NullNode, ret |-> "", sb |-> 0,
          first |-> 0, prev |-> 0, idx |-> 0, mc |-> 0, op |-> "",
          size |-> 0, align |-> 0]

\* no state has been recorded
NoBefore == [taken |-> FALSE, anchor |-> <<>>, active |-> NullActive, partial |-> <<>>,
             pagemap |-> <<>>, mapped |-> {}, live |-> {}, bound |-> {}, large |-> FALSE]

NoHist == [dupBlock |-> FALSE, dupDesc |-> FALSE, owned |-> {}, badPageFree |-> FALSE,
           badAlign |-> FALSE, refused |-> {}, nullRet |-> {}, before |-> NoBefore]

Init ==
    /\ active = NullActive
    /\ partialList = NullNode
    /\ sizeclass \in Classes
    /\ AvailDesc = NullNode
    /\ nextFree = [d \in Descs |-> NullNode]
    /\ nextPartial = [d \in Descs |-> NullNode]
    /\ anchor = [d \in Descs |-> ZeroAnchor]
    /\ superblock = [d \in Descs |-> 0]
    /\ dheap = [d \in Descs |-> "null"]
    /\ blockSize = [d \in Descs |-> 0]
    /\ maxcount = [d \in Descs |-> 0]
    /\ carved = 0
    /\ pagemap = [p \in Pages |-> 0]
    /\ mapped = {}
    /\ mem = [a \in Addrs |-> Garbage]
    /\ pc = [t \in Threads |-> "idle"]
    /\ loc = [t \in Threads |-> NoLoc]
    /\ live = {}
    /\ nmallocs = 0
    /\ nlarge = 0
    /\ nrefused = 0
    /\ hist = NoHist


(***************************************************************************)
(* Helpers.                                                                *)
(***************************************************************************)
LivePtrs == {b[1] : b \in live}

\* a load through a pointer faults when the page provider does not map the address
CanRead(a) == SlotOf(a) \in mapped
ReadVals(a) == IF mem[a] = Garbage THEN GarbageVals(sizeclass) ELSE {mem[a]}

Goto(t, label) == pc' = [pc EXCEPT ![t] = label]
\* a fault ends the process: no thread takes another step
Crash(t) == /\ pc' = [u \in DOMAIN pc |-> "crashed"]
            /\ loc' = [u \in DOMAIN loc |-> NoLoc]

\* a compare-and-swap that leaves its first argument alone when it fails
CasReload_keep(found, expected) == expected

\* compare_exchange_weak and compare_exchange_strong, on failure, write the
\* value they found into their first argument
CasReload(found, expected) == found

\* lr_malloc of thread t returns block p of descriptor d: to the caller of
\* malloc, who may from then on write anything into the block, or to
\* lr_posix_memalign (line 606), which goes on to align it
ReturnBlock(t, p, d) ==
    IF loc[t].op = "memalign"
    THEN /\ pc' = [pc EXCEPT ![t] = "PM_align"]
         /\ loc' = [loc EXCEPT ![t] = [NoLoc EXCEPT !.op = "memalign", !.ptr = p,
                                             !.align = loc[t].align]]
         /\ UNCHANGED <<live, hist, mem>>
    ELSE /\ pc' = [pc EXCEPT ![t] = "idle"]
         /\ loc' = [loc EXCEPT ![t] = NoLoc]
         /\ live' = live \cup {<<p, d>>}
         /\ hist' = [hist EXCEPT !.dupBlock = @ \/ (p \in LivePtrs)]
         /\ mem' = IF p \in Addrs THEN [mem EXCEPT ![p] = Garbage] ELSE mem

(***************************************************************************)
(* lr_malloc, small classes: the loop over the three sources.              *)
(***************************************************************************)
StartMalloc(t) ==
    /\ pc[t] = "idle"
    /\ nmallocs < MaxMallocs
    /\ nmallocs' = nmallocs + 1
    /\ UNCHANGED <<nlarge, nrefused>>
    /\ pc' = [pc EXCEPT ![t] = "MA_load"]
    /\ loc' = [loc EXCEPT ![t] = [NoLoc EXCEPT !.op = "malloc"]]
    /\ hist' = [hist EXCEPT !.refused = @ \ {t}, !.nullRet = @ \ {t}]
    /\ UNCHANGED <<heapVars, poolVars, descVars, nextPartial, pagemap, mapped, mem,
                   live>>

(***************************************************************************)
(* MallocFromActive.                                                       *)
(***************************************************************************)
MA_load(t) ==
    /\ pc[t] = "MA_load"
    /\ loc' = [loc EXCEPT ![t] = [NoLoc EXCEPT !.op = loc[t].op, !.align = loc[t].align,
                                        !.oldActive = active]]
    /\ Goto(t, "MA_cas")
    /\ UNCHANGED <<heapVars, poolVars, descVars, nextPartial, pagemap, mapped, mem,
                   live, callVars, hist>>

\* the credit reservation: lines 99-116
MA_cas(t) ==
    /\ pc[t] = "MA_cas"
    /\ LET old == loc[t].oldActive
           new == IF old.credits > 0 THEN MkActive(old.desc, old.credits - 1)
                  ELSE NullActive
       IN IF old = NullActive
          THEN \* return nullptr: on to MallocFromPartial
               /\ Goto(t, "LP_load")
               /\ UNCHANGED <<active, loc>>
          ELSE IF active = old
          THEN /\ active' = new
               /\ loc' = [loc EXCEPT ![t] = [@ EXCEPT !.desc = old.desc,
                                                     !.oldCredits = old.credits]]
               /\ Goto(t, "MA_aload")
          ELSE /\ loc' = [loc EXCEPT ![t] = [@ EXCEPT !.oldActive = CasReload(active, old)]]
               /\ UNCHANGED <<active, pc>>
    /\ UNCHANGED <<partialList, sizeclass, poolVars, descVars, nextPartial, pagemap,
                   mapped, mem, live, callVars, hist>>

MA_aload(t) ==
    /\ pc[t] = "MA_aload"
    /\ loc' = [loc EXCEPT ![t] = [@ EXCEPT !.oldAnchor = anchor[loc[t].desc]]]
    /\ Goto(t, "MA_read")
    /\ UNCHANGED <<heapVars, poolVars, descVars, nextPartial, pagemap, mapped, mem,
                   live, callVars, hist>>

\* lines 135-141: the address of the available block and the unsynchronised
\* read of its link
MA_read(t) ==
    /\ pc[t] = "MA_read"
    /\ LET d == loc[t].desc
           a == superblock[d] + loc[t].oldAnchor.avail * blockSize[d]
       IN IF CanRead(a)
          THEN /\ \E v \in ReadVals(a) :
                    loc' = [loc EXCEPT ![t] = [@ EXCEPT !.ptr = a, !.next = v]]
               /\ Goto(t, "MA_acas")
          ELSE Crash(t)
    /\ UNCHANGED <<heapVars, poolVars, descVars, nextPartial, pagemap, mapped, mem,
                   live, callVars, hist>>

\* MallocFromActive leaving the head of the free list in place
MA_newAnchor_keepAvail(old, next, oldCredits) ==
    LET popped == [old EXCEPT !.tag = (old.tag + 1) % Pow2(TAG_BITS)]
    IN IF oldCredits = 0
       THEN IF old.count = 0
            THEN [popped EXCEPT !.state = SB_FULL]
            ELSE [popped EXCEPT !.count = old.count - Min(old.count, CREDITS_MAX)]
       ELSE popped

\* MallocFromActive marking the superblock FULL whenever it took the last credit
MA_newAnchor_fullOnRefill(old, next, oldCredits) ==
    LET popped == [old EXCEPT !.avail = next % Pow2(AVAIL_BITS),
                              !.tag = (old.tag + 1) % Pow2(TAG_BITS)]
    IN IF oldCredits = 0
       THEN [popped EXCEPT !.state = SB_FULL,
                           !.count = old.count - Min(old.count, CREDITS_MAX)]
       ELSE popped

\* MallocFromActive never marking the superblock FULL
MA_newAnchor_noFull(old, next, oldCredits) ==
    LET popped == [old EXCEPT !.avail = next % Pow2(AVAIL_BITS),
                              !.tag = (old.tag + 1) % Pow2(TAG_BITS)]
    IN IF oldCredits = 0 /\ old.count # 0
       THEN [popped EXCEPT !.count = old.count - Min(old.count, CREDITS_MAX)]
       ELSE popped

\* lines 143-157: the anchor MallocFromActive tries to install, and the credits
\* it takes along
MA_newAnchor(old, next, oldCredits) ==
    LET popped == [old EXCEPT !.avail = next % Pow2(AVAIL_BITS),
                              !.tag = (old.tag + 1) % Pow2(TAG_BITS)]
    IN IF oldCredits = 0
       THEN IF old.count = 0
            THEN [popped EXCEPT !.state = SB_FULL]
            ELSE [popped EXCEPT !.count = old.count - Min(old.count, CREDITS_MAX)]
       ELSE popped

MA_credits(old, oldCredits, prevCredits) ==
    IF oldCredits = 0 /\ old.count # 0 THEN Min(old.count, CREDITS_MAX)
    ELSE prevCredits

\* lines 160-175
MA_acas(t) ==
    /\ pc[t] = "MA_acas"
    /\ LET d == loc[t].desc
           old == loc[t].oldAnchor
           new == MA_newAnchor(old, loc[t].next, loc[t].oldCredits)
           cr == MA_credits(old, loc[t].oldCredits, loc[t].credits)
       IN IF anchor[d] = old
          THEN /\ anchor' = [anchor EXCEPT ![d] = new]
               /\ IF cr > 0
                  THEN /\ loc' = [loc EXCEPT ![t] = [@ EXCEPT !.credits = cr]]
                       /\ Goto(t, "UA_load")
                       /\ UNCHANGED <<live, hist, mem>>
                  ELSE ReturnBlock(t, loc[t].ptr, d)
          ELSE /\ loc' = [loc EXCEPT ![t] = [@ EXCEPT !.oldAnchor = CasReload(anchor[d], old),
                                                     !.credits = cr]]
               /\ Goto(t, "MA_read")
               /\ UNCHANGED <<anchor, live, hist, mem>>
    /\ UNCHANGED <<heapVars, poolVars, superblock, dheap, blockSize, maxcount,
                   nextPartial, pagemap, mapped, callVars>>

(***************************************************************************)
(* UpdateActive.                                                           *)
(***************************************************************************)
UA_load(t) ==
    /\ pc[t] = "UA_load"
    /\ loc' = [loc EXCEPT ![t] = [@ EXCEPT !.oldActive = active]]
    /\ Goto(t, "UA_cas")
    /\ UNCHANGED <<heapVars, poolVars, descVars, nextPartial, pagemap, mapped, mem,
                   live, callVars, hist>>

\* line 183: the comparand of the strong CAS is the value loaded at line 180
UA_expected(loaded) == loaded

UA_cas(t) ==
    /\ pc[t] = "UA_cas"
    /\ IF active = UA_expected(loc[t].oldActive)
       THEN /\ active' = MkActive(loc[t].desc, loc[t].credits - 1)
            /\ ReturnBlock(t, loc[t].ptr, loc[t].desc)
       ELSE /\ Goto(t, "UA_aload")
            /\ UNCHANGED <<active, loc, live, hist, mem>>
    /\ UNCHANGED <<partialList, sizeclass, poolVars, descVars, nextPartial, pagemap,
                   mapped, callVars>>

UA_aload(t) ==
    /\ pc[t] = "UA_aload"
    /\ loc' = [loc EXCEPT ![t] = [@ EXCEPT !.oldAnchor = anchor[loc[t].desc]]]
    /\ Goto(t, "UA_acas")
    /\ UNCHANGED <<heapVars, poolVars, descVars, nextPartial, pagemap, mapped, mem,
                   live, callVars, hist>>

\* lines 194-196
UA_newAnchor(old, credits) ==
    [old EXCEPT !.count = (old.count + credits) % Pow2(COUNT_BITS),
                !.state = SB_PARTIAL]

UA_acas(t) ==
    /\ pc[t] = "UA_acas"
    /\ LET d == loc[t].desc
       IN IF anchor[d] = loc[t].oldAnchor
          THEN /\ anchor' = [anchor EXCEPT ![d] = UA_newAnchor(loc[t].oldAnchor,
                                                               loc[t].credits)]
               /\ Goto(t, "LPush_load")
               /\ UNCHANGED loc
          ELSE /\ loc' = [loc EXCEPT ![t] =
                            [@ EXCEPT !.oldAnchor = CasReload(anchor[d], loc[t].oldAnchor)]]
               /\ UNCHANGED <<anchor, pc>>
    /\ UNCHANGED <<heapVars, poolVars, superblock, dheap, blockSize, maxcount,
                   nextPartial, pagemap, mapped, mem, live, callVars, hist>>

(***************************************************************************)
(* ListPushPartial (HeapPushPartial).                                      *)
(***************************************************************************)
\* lines 227-231: the counter of the new head is computed once, before the loop
LPush_load(t) ==
    /\ pc[t] = "LPush_load"
    /\ loc' = [loc EXCEPT ![t] =
                 [@ EXCEPT !.oldHead = partialList,
                           !.newHead = Node(loc[t].desc, partialList.counter + 1)]]
    /\ nextPartial' = [nextPartial EXCEPT ![loc[t].desc] = partialList]
    /\ Goto(t, "LPush_cas")
    /\ UNCHANGED <<heapVars, poolVars, descVars, pagemap, mapped, mem, live,
                   callVars, hist>>

\* lines 233-234; a failed CAS reloads oldHead and the loop body stores it again
LPush_cas(t) ==
    /\ pc[t] = "LPush_cas"
    /\ IF partialList = loc[t].oldHead
       THEN /\ partialList' = loc[t].newHead
            /\ UNCHANGED nextPartial
            /\ IF loc[t].op = "malloc"
               THEN ReturnBlock(t, loc[t].ptr, loc[t].desc)
               ELSE /\ Goto(t, "idle")
                    /\ loc' = [loc EXCEPT ![t] = NoLoc]
                    /\ UNCHANGED <<live, hist, mem>>
       ELSE /\ loc' = [loc EXCEPT ![t] =
                         [@ EXCEPT !.oldHead = CasReload(partialList, loc[t].oldHead)]]
            /\ nextPartial' = [nextPartial EXCEPT ![loc[t].newHead.desc] =
                                 CasReload(partialList, loc[t].oldHead)]
            /\ UNCHANGED <<partialList, pc, live, hist, mem>>
    /\ UNCHANGED <<active, sizeclass, poolVars, descVars, pagemap, mapped, callVars>>


(***************************************************************************)
(* ListPopPartial (HeapPopPartial) and MallocFromPartial.                  *)
(***************************************************************************)
LP_load(t) ==
    /\ pc[t] = "LP_load"
    /\ loc' = [loc EXCEPT ![t] = [@ EXCEPT !.oldHead = partialList]]
    /\ Goto(t, "LP_read")
    /\ UNCHANGED <<heapVars, poolVars, descVars, nextPartial, pagemap, mapped, mem,
                   live, callVars, hist>>

\* lines 211-215; an empty list makes MallocFromPartial return nullptr, and
\* lr_malloc goes on to MallocFromNewSB, which starts with DescAlloc
LP_read(t) ==
    /\ pc[t] = "LP_read"
    /\ IF loc[t].oldHead.desc = 0
       THEN /\ loc' = [loc EXCEPT ![t] = [@ EXCEPT !.ret = "NS_init"]]
            /\ Goto(t, "DA_load")
       ELSE /\ loc' = [loc EXCEPT ![t] =
                         [@ EXCEPT !.newHead = Node(nextPartial[loc[t].oldHead.desc].desc,
                                                    loc[t].oldHead.counter)]]
            /\ Goto(t, "LP_cas")
    /\ UNCHANGED <<heapVars, poolVars, descVars, nextPartial, pagemap, mapped, mem,
                   live, callVars, hist>>

LP_cas(t) ==
    /\ pc[t] = "LP_cas"
    /\ IF partialList = loc[t].oldHead
       THEN /\ partialList' = loc[t].newHead
            /\ loc' = [loc EXCEPT ![t] = [@ EXCEPT !.desc = loc[t].oldHead.desc,
                                                  !.credits = 0]]
            /\ Goto(t, "MP_aload")
       ELSE /\ loc' = [loc EXCEPT ![t] =
                         [@ EXCEPT !.oldHead = CasReload(partialList, loc[t].oldHead)]]
            /\ Goto(t, "LP_read")
            /\ UNCHANGED partialList
    /\ UNCHANGED <<active, sizeclass, poolVars, descVars, nextPartial, pagemap, mapped,
                   mem, live, callVars, hist>>

MP_aload(t) ==
    /\ pc[t] = "MP_aload"
    /\ loc' = [loc EXCEPT ![t] = [@ EXCEPT !.oldAnchor = anchor[loc[t].desc]]]
    /\ Goto(t, "MP_rcas")
    /\ UNCHANGED <<heapVars, poolVars, descVars, nextPartial, pagemap, mapped, mem,
                   live, callVars, hist>>

\* line 280: count is an unsigned bit-field, promoted to int before the
\* subtraction and converted to uint64_t by std::min<uint64_t>
MP_credits(old) ==
    IF old.count = 0 THEN CREDITS_MAX ELSE Min(old.count - 1, CREDITS_MAX)

\* lines 281-285
MP_newAnchor(old) ==
    [old EXCEPT !.count = (old.count - 1 - MP_credits(old)) % Pow2(COUNT_BITS),
                !.state = IF MP_credits(old) > 0 THEN SB_ACTIVE ELSE SB_FULL]

\* lines 266-288: the reservation
MP_rcas(t) ==
    /\ pc[t] = "MP_rcas"
    /\ LET d == loc[t].desc
           old == loc[t].oldAnchor
       IN IF old.state = SB_EMPTY
          THEN \* DescRetire(desc), then MallocFromPartial again
               /\ loc' = [loc EXCEPT ![t] = [@ EXCEPT !.ret = "LP_load"]]
               /\ Goto(t, "DR_load")
               /\ UNCHANGED anchor
          ELSE IF anchor[d] = old
          THEN /\ anchor' = [anchor EXCEPT ![d] = MP_newAnchor(old)]
               /\ loc' = [loc EXCEPT ![t] = [@ EXCEPT !.credits = MP_credits(old)]]
               /\ Goto(t, "MP_aload2")
          ELSE /\ loc' = [loc EXCEPT ![t] = [@ EXCEPT !.oldAnchor = CasReload(anchor[d], old),
                                                     !.credits = MP_credits(old)]]
               /\ UNCHANGED <<anchor, pc>>
    /\ UNCHANGED <<heapVars, poolVars, superblock, dheap, blockSize, maxcount,
                   nextPartial, pagemap, mapped, mem, live, callVars, hist>>

MP_aload2(t) ==
    /\ pc[t] = "MP_aload2"
    /\ loc' = [loc EXCEPT ![t] = [@ EXCEPT !.oldAnchor = anchor[loc[t].desc]]]
    /\ Goto(t, "MP_read")
    /\ UNCHANGED <<heapVars, poolVars, descVars, nextPartial, pagemap, mapped, mem,
                   live, callVars, hist>>

\* lines 300-306: the block size is read through desc->heap->sizeclass
MP_read(t) ==
    /\ pc[t] = "MP_read"
    /\ LET d == loc[t].desc
           a == superblock[d] + loc[t].oldAnchor.avail * sizeclass.blockSize
       IN IF CanRead(a)
          THEN /\ \E v \in ReadVals(a) :
                    loc' = [loc EXCEPT ![t] = [@ EXCEPT !.ptr = a, !.next = v]]
               /\ Goto(t, "MP_pcas")
          ELSE Crash(t)
    /\ UNCHANGED <<heapVars, poolVars, descVars, nextPartial, pagemap, mapped, mem,
                   live, callVars, hist>>

\* lines 305-307
\* the pop of MallocFromPartial without the tag
MP_popAnchor_noTag(old, next) == [old EXCEPT !.avail = next % Pow2(AVAIL_BITS)]

\* lines 305-307
MP_popAnchor(old, next) ==
    [old EXCEPT !.avail = next % Pow2(AVAIL_BITS),
                !.tag = (old.tag + 1) % Pow2(TAG_BITS)]

\* lines 309-320
MP_pcas(t) ==
    /\ pc[t] = "MP_pcas"
    /\ LET d == loc[t].desc
       IN IF anchor[d] = loc[t].oldAnchor
          THEN /\ anchor' = [anchor EXCEPT ![d] = MP_popAnchor(loc[t].oldAnchor,
                                                               loc[t].next)]
               /\ IF loc[t].credits > 0
                  THEN /\ Goto(t, "UA_load")
                       /\ UNCHANGED <<loc, live, hist, mem>>
                  ELSE ReturnBlock(t, loc[t].ptr, d)
          ELSE /\ loc' = [loc EXCEPT ![t] =
                            [@ EXCEPT !.oldAnchor = CasReload(anchor[d], loc[t].oldAnchor)]]
               /\ Goto(t, "MP_read")
               /\ UNCHANGED <<anchor, live, hist, mem>>
    /\ UNCHANGED <<heapVars, poolVars, superblock, dheap, blockSize, maxcount,
                   nextPartial, pagemap, mapped, callVars>>


(***************************************************************************)
(* The descriptor pool: DescAlloc and DescRetire.                          *)
(***************************************************************************)
\* the descriptors of the k-th region obtained by DescAlloc
BlockDescs(k) == ((k - 1) * DescPerBlock + 1)..(k * DescPerBlock)

\* DescAlloc hands descriptor d to its caller
TakeDesc(d) ==
    hist' = [hist EXCEPT !.dupDesc = @ \/ (d \in hist.owned),
                         !.owned = @ \cup {d}]

DA_load(t) ==
    /\ pc[t] = "DA_load"
    /\ loc' = [loc EXCEPT ![t] = [@ EXCEPT !.oldHead = AvailDesc]]
    /\ Goto(t, "DA_read")
    /\ UNCHANGED <<heapVars, poolVars, descVars, nextPartial, pagemap, mapped, mem,
                   live, callVars, hist>>

\* DescAlloc leaving the head of the pool in place
DA_newHead_keepHead(next, oldHead) == oldHead

\* lines 392-393: the head DescAlloc installs is the successor of the old head,
\* with the counter of the old head
DA_newHead(next, oldHead) == Node(next.desc, oldHead.counter)

\* lines 390-393: the pool is not empty, read the successor of its head
DA_read(t) ==
    /\ pc[t] = "DA_read"
    /\ loc[t].oldHead.desc # 0
    /\ loc' = [loc EXCEPT ![t] =
                 [@ EXCEPT !.newHead = DA_newHead(nextFree[loc[t].oldHead.desc],
                                                  loc[t].oldHead)]]
    /\ Goto(t, "DA_cas")
    /\ UNCHANGED <<heapVars, poolVars, descVars, nextPartial, pagemap, mapped, mem,
                   live, callVars, hist>>

\* lines 394-395
DA_cas(t) ==
    /\ pc[t] = "DA_cas"
    /\ IF AvailDesc = loc[t].oldHead
       THEN /\ AvailDesc' = loc[t].newHead
            /\ TakeDesc(loc[t].oldHead.desc)
            /\ loc' = [loc EXCEPT ![t] = [@ EXCEPT !.desc = loc[t].oldHead.desc]]
            /\ Goto(t, loc[t].ret)
       ELSE /\ loc' = [loc EXCEPT ![t] =
                         [@ EXCEPT !.oldHead = CasReload(AvailDesc, loc[t].oldHead)]]
            /\ Goto(t, "DA_read")
            /\ UNCHANGED <<AvailDesc, hist>>
    /\ UNCHANGED <<heapVars, nextFree, carved, descVars, nextPartial, pagemap, mapped,
                   mem, live, callVars>>

\* lines 399-431: the pool is empty; a fresh region is carved into descriptors,
\* the first is kept for the caller, the others are linked and, in the first
\* round of the loop, the last is linked to the head just loaded
DA_carve(t) ==
    /\ pc[t] = "DA_read"
    /\ loc[t].oldHead.desc = 0
    /\ carved < MaxDescBlocks
    /\ LET ds == BlockDescs(carved + 1)
           ret == (carved * DescPerBlock) + 1
           first == ret + 1
           prev == carved * DescPerBlock + DescPerBlock
       IN /\ nextFree' = [d \in Descs |->
                            IF d \in ds /\ d # ret
                            THEN IF d = prev THEN AvailDesc ELSE Node(d + 1, 0)
                            ELSE nextFree[d]]
          /\ loc' = [loc EXCEPT ![t] = [@ EXCEPT !.desc = ret, !.first = first,
                                                !.prev = prev, !.oldHead = AvailDesc]]
    /\ carved' = carved + 1
    /\ Goto(t, "DA_pushcas")
    /\ UNCHANGED <<heapVars, AvailDesc, descVars, nextPartial, pagemap, mapped, mem,
                   live, callVars, hist>>

\* lines 432-438
DA_pushcas(t) ==
    /\ pc[t] = "DA_pushcas"
    /\ IF AvailDesc = loc[t].oldHead
       THEN /\ AvailDesc' = Node(loc[t].first, loc[t].oldHead.counter + 1)
            /\ TakeDesc(loc[t].desc)
            /\ loc' = [loc EXCEPT ![t] = [@ EXCEPT !.first = 0, !.prev = 0]]
            /\ Goto(t, loc[t].ret)
            /\ UNCHANGED nextFree
       ELSE /\ loc' = [loc EXCEPT ![t] =
                         [@ EXCEPT !.oldHead = CasReload(AvailDesc, loc[t].oldHead)]]
            /\ nextFree' = [nextFree EXCEPT ![loc[t].prev] =
                              CasReload(AvailDesc, loc[t].oldHead)]
            /\ UNCHANGED <<AvailDesc, pc, hist>>
    /\ UNCHANGED <<heapVars, carved, descVars, nextPartial, pagemap, mapped, mem,
                   live, callVars>>

\* lines 445-451, first round of the loop
DR_load(t) ==
    /\ pc[t] = "DR_load"
    /\ loc' = [loc EXCEPT ![t] = [@ EXCEPT !.oldHead = AvailDesc]]
    /\ nextFree' = [nextFree EXCEPT ![loc[t].desc] = AvailDesc]
    /\ hist' = [hist EXCEPT !.owned = @ \ {loc[t].desc}]
    /\ Goto(t, "DR_cas")
    /\ UNCHANGED <<heapVars, AvailDesc, carved, descVars, nextPartial, pagemap, mapped,
                   mem, live, callVars>>

\* the head DescRetire installs (lines 450-451)
DR_newHead(desc, oldHead) == Node(desc, oldHead.counter + 1)

\* line 453; DescRetire returns to lr_free (which returns), to MallocFromPartial
\* (which calls itself) or to MallocFromNewSB (which returns nullptr to the loop
\* of lr_malloc)
DR_cas(t) ==
    /\ pc[t] = "DR_cas"
    /\ IF AvailDesc = loc[t].oldHead
       THEN /\ AvailDesc' = DR_newHead(loc[t].desc, loc[t].oldHead)
            /\ Goto(t, loc[t].ret)
            /\ loc' = [loc EXCEPT ![t] =
                         IF loc[t].ret = "idle" THEN NoLoc
                         ELSE [NoLoc EXCEPT !.op = loc[t].op, !.align = loc[t].align]]
            /\ UNCHANGED nextFree
       ELSE /\ loc' = [loc EXCEPT ![t] =
                         [@ EXCEPT !.oldHead = CasReload(AvailDesc, loc[t].oldHead)]]
            /\ nextFree' = [nextFree EXCEPT ![loc[t].desc] =
                              CasReload(AvailDesc, loc[t].oldHead)]
            /\ UNCHANGED <<AvailDesc, pc>>
    /\ UNCHANGED <<heapVars, carved, descVars, nextPartial, pagemap, mapped, mem,
                   live, callVars, hist>>

(***************************************************************************)
(* The page map and the page provider.                                     *)
(***************************************************************************)
\* UpdatePageMap writing the first page only, whatever the heap
PagesWritten_firstOnly(heapIsNull, ptr, sbSize) == {PageOf(ptr)}

\* the pages UpdatePageMap writes: the first page only when heap is null,
\* every page of the superblock otherwise (lines 54-70)
PagesWritten(heapIsNull, ptr, sbSize) ==
    IF heapIsNull THEN {PageOf(ptr)}
    ELSE {PageOf(ptr + i * PAGE) : i \in 0..((sbSize + PAGE - 1) \div PAGE - 1)}

UpdatePageMap(pm, heapIsNull, ptr, value, sbSize) ==
    [p \in Pages |-> IF p \in PagesWritten(heapIsNull, ptr, sbSize) THEN value ELSE pm[p]]

\* PageFree: the region goes back to the provider and its contents are gone
PageFreeMem(s) == [a \in Addrs |-> IF SlotOf(a) = s THEN Garbage ELSE mem[a]]

(***************************************************************************)
(* MallocFromNewSB.                                                        *)
(***************************************************************************)
\* SizeClassData::GetBlockNum
GetBlockNum(sc) == sc.sbSize \div sc.blockSize

\* line 343
NS_credits(mc) == Min(mc - 1, CREDITS_MAX)

\* MallocFromNewSB forgetting the block it hands to its caller
NS_anchor_countAll(mc) ==
    MkAnchor(SB_ACTIVE, 1, mc - Min(mc - 1, CREDITS_MAX), 0)

\* lines 346-350
NS_anchor(mc) == MkAnchor(SB_ACTIVE, 1, (mc - 1) - NS_credits(mc), 0)

\* lines 339-340: the links of blocks 1 .. maxcount - 2
NS_links(m, base, mc, bs) ==
    [a \in Addrs |-> IF \E idx \in 1..(mc - 2) : a = base + idx * bs
                     THEN ((a - base) \div bs) + 1
                     ELSE m[a]]

\* lines 330-352: the descriptor is filled in, the superblock obtained and
\* formatted, the anchor stored
NS_init(t) ==
    /\ pc[t] = "NS_init"
    /\ LET d == loc[t].desc
           mc == GetBlockNum(sizeclass)
       IN \E s \in Slots \ mapped :
            /\ mapped' = mapped \cup {s}
            /\ dheap' = [dheap EXCEPT ![d] = "heap"]
            /\ blockSize' = [blockSize EXCEPT ![d] = sizeclass.blockSize]
            /\ maxcount' = [maxcount EXCEPT ![d] = mc]
            /\ superblock' = [superblock EXCEPT ![d] = SlotBase(s)]
            /\ mem' = NS_links(mem, SlotBase(s), mc, sizeclass.blockSize)
            /\ anchor' = [anchor EXCEPT ![d] = NS_anchor(mc)]
            /\ loc' = [loc EXCEPT ![t] = [@ EXCEPT !.credits = NS_credits(mc)]]
    /\ Goto(t, "NS_reg")
    /\ UNCHANGED <<heapVars, poolVars, nextPartial, pagemap, live, callVars, hist>>

\* lines 359-362: RegisterDesc, then the load of heap->active
NS_reg(t) ==
    /\ pc[t] = "NS_reg"
    /\ LET d == loc[t].desc
       IN pagemap' = UpdatePageMap(pagemap, dheap[d] = "null", superblock[d], d,
                                   sizeclass.sbSize)
    /\ loc' = [loc EXCEPT ![t] = [@ EXCEPT !.oldActive = active]]
    /\ Goto(t, "NS_cas")
    /\ UNCHANGED <<heapVars, poolVars, descVars, nextPartial, mapped, mem, live,
                   callVars, hist>>

\* lines 363-365 and 375-377: the installation succeeds
NS_install(t) ==
    /\ pc[t] = "NS_cas"
    /\ loc[t].oldActive = NullActive
    /\ active = NullActive
    /\ active' = MkActive(loc[t].desc, loc[t].credits - 1)
    /\ IF superblock[loc[t].desc] # 0
       THEN ReturnBlock(t, superblock[loc[t].desc], loc[t].desc)
       ELSE \* a null result sends lr_malloc round its loop again (line 540)
            /\ Goto(t, "MA_load")
            /\ UNCHANGED <<loc, live, hist, mem>>
    /\ UNCHANGED <<partialList, sizeclass, poolVars, descVars, nextPartial, pagemap,
                   mapped, callVars>>

\* MallocFromNewSB losing the race and keeping its superblock
NS_fail_leak(t) ==
    /\ pc[t] = "NS_cas"
    /\ ~(loc[t].oldActive = NullActive /\ active = NullActive)
    /\ loc' = [loc EXCEPT ![t] = [@ EXCEPT !.ret = "MA_load"]]
    /\ Goto(t, "DR_load")
    /\ UNCHANGED <<heapVars, poolVars, descVars, nextPartial, live, callVars,
                   pagemap, mapped, mem, hist>>

\* lines 366-372: there is an active superblock already; the new one is
\* unregistered and given back, the descriptor retired
NS_fail(t) ==
    /\ pc[t] = "NS_cas"
    /\ ~(loc[t].oldActive = NullActive /\ active = NullActive)
    /\ LET d == loc[t].desc
           s == SlotOf(superblock[d])
       IN /\ pagemap' = UpdatePageMap(pagemap, dheap[d] = "null", superblock[d], 0,
                                      sizeclass.sbSize)
          /\ mapped' = mapped \ {s}
          /\ mem' = PageFreeMem(s)
          /\ hist' = [hist EXCEPT !.badPageFree = @ \/ (s \notin mapped)]
    /\ loc' = [loc EXCEPT ![t] = [@ EXCEPT !.ret = "MA_load"]]
    /\ Goto(t, "DR_load")
    /\ UNCHANGED <<heapVars, poolVars, descVars, nextPartial, live, callVars>>


(***************************************************************************)
(* lr_free, small classes.                                                 *)
(***************************************************************************)
\* lines 667-708: the caller gives up block p; the descriptor is looked up in
\* the page map and its heap, superblock and maxcount are read
F_start(t) ==
    /\ pc[t] = "idle"
    /\ \E p \in LivePtrs :
         LET d == pagemap[PageOf(p)]
         IN /\ live' = {b \in live : b[1] # p}
            /\ IF d = 0
               THEN /\ UNCHANGED <<pc, loc>>
               ELSE /\ loc' = [loc EXCEPT ![t] = [NoLoc EXCEPT !.op = "free", !.ptr = p,
                                                        !.desc = d, !.sb = superblock[d]]]
                    /\ Goto(t, IF dheap[d] = "heap" THEN "F_aload" ELSE "LF_free")
    /\ UNCHANGED <<heapVars, poolVars, descVars, nextPartial, pagemap, mapped, mem,
                   callVars, hist>>

\* lines 716-724: the index of the block, and the store of the old head of
\* the free list into the block
F_body(t, old) ==
    LET d == loc[t].desc
        idx == (loc[t].ptr - loc[t].sb) \div blockSize[d]
        a == superblock[d] + idx * blockSize[d]
    IN IF blockSize[d] # 0 /\ loc[t].ptr >= loc[t].sb /\ CanRead(a)
       THEN /\ mem' = [mem EXCEPT ![a] = old.avail]
            /\ loc' = [loc EXCEPT ![t] = [@ EXCEPT !.oldAnchor = old, !.ptr = a,
                                                  !.idx = idx, !.mc = maxcount[d]]]
            /\ Goto(t, "F_cas")
       ELSE /\ Crash(t)
            /\ UNCHANGED mem

F_aload(t) ==
    /\ pc[t] = "F_aload"
    /\ F_body(t, anchor[loc[t].desc])
    /\ UNCHANGED <<heapVars, poolVars, descVars, nextPartial, pagemap, mapped, live,
                   callVars, hist>>

\* lr_free taking the superblock for empty one block too early
F_newAnchor_early(old, idx, mc) ==
    LET pushed == [old EXCEPT !.avail = idx % Pow2(AVAIL_BITS),
                              !.state = IF old.state = SB_FULL THEN SB_PARTIAL
                                        ELSE old.state]
    IN IF old.count + 1 >= mc - 1
       THEN [pushed EXCEPT !.state = SB_EMPTY]
       ELSE [pushed EXCEPT !.count = (old.count + 1) % Pow2(COUNT_BITS)]

\* lr_free counting the block without looking for the last one
F_newAnchor_noEmpty(old, idx, mc) ==
    [old EXCEPT !.avail = idx % Pow2(AVAIL_BITS),
                !.state = IF old.state = SB_FULL THEN SB_PARTIAL ELSE old.state,
                !.count = (old.count + 1) % Pow2(COUNT_BITS)]

\* lines 726-737
F_newAnchor(old, idx, mc) ==
    LET pushed == [old EXCEPT !.avail = idx % Pow2(AVAIL_BITS),
                              !.state = IF old.state = SB_FULL THEN SB_PARTIAL
                                        ELSE old.state]
    IN IF old.count = mc - 1
       THEN [pushed EXCEPT !.state = SB_EMPTY]
       ELSE [pushed EXCEPT !.count = (old.count + 1) % Pow2(COUNT_BITS)]

\* lr_free not pushing the superblock it has taken out of FULL
F_cas_noPush(t) ==
    /\ pc[t] = "F_cas"
    /\ LET d == loc[t].desc
           old == loc[t].oldAnchor
           new == F_newAnchor(old, loc[t].idx, loc[t].mc)
       IN IF anchor[d] = old
          THEN /\ anchor' = [anchor EXCEPT ![d] = new]
               /\ UNCHANGED mem
               /\ IF new.state = SB_EMPTY
                  THEN /\ Goto(t, "F_empty")
                       /\ UNCHANGED loc
                  ELSE /\ Goto(t, "idle")
                       /\ loc' = [loc EXCEPT ![t] = NoLoc]
          ELSE /\ F_body(t, CasReload(anchor[d], old))
               /\ UNCHANGED anchor
    /\ UNCHANGED <<heapVars, poolVars, superblock, dheap, blockSize, maxcount,
                   nextPartial, pagemap, mapped, live, callVars, hist>>

\* lines 739-760
F_cas(t) ==
    /\ pc[t] = "F_cas"
    /\ LET d == loc[t].desc
           old == loc[t].oldAnchor
           new == F_newAnchor(old, loc[t].idx, loc[t].mc)
       IN IF anchor[d] = old
          THEN /\ anchor' = [anchor EXCEPT ![d] = new]
               /\ UNCHANGED mem
               /\ IF new.state = SB_EMPTY
                  THEN /\ Goto(t, "F_empty")
                       /\ UNCHANGED loc
                  ELSE IF old.state = SB_FULL
                  THEN /\ Goto(t, "LPush_load")
                       /\ UNCHANGED loc
                  ELSE /\ Goto(t, "idle")
                       /\ loc' = [loc EXCEPT ![t] = NoLoc]
          ELSE /\ F_body(t, CasReload(anchor[d], old))
               /\ UNCHANGED anchor
    /\ UNCHANGED <<heapVars, poolVars, superblock, dheap, blockSize, maxcount,
                   nextPartial, pagemap, mapped, live, callVars, hist>>

\* lines 752-756: the superblock is unregistered and given back to the page
\* provider; RemoveEmptyDesc does nothing
F_empty(t) ==
    /\ pc[t] = "F_empty"
    /\ LET s == SlotOf(loc[t].sb)
       IN /\ pagemap' = UpdatePageMap(pagemap, FALSE, loc[t].sb, 0, sizeclass.sbSize)
          /\ mapped' = mapped \ {s}
          /\ mem' = PageFreeMem(s)
          /\ hist' = [hist EXCEPT !.badPageFree = @ \/ (s \notin mapped)]
    /\ Goto(t, "idle")
    /\ loc' = [loc EXCEPT ![t] = NoLoc]
    /\ UNCHANGED <<heapVars, poolVars, descVars, nextPartial, live, callVars>>

(***************************************************************************)
(* The large path of lr_malloc and lr_free, and lr_posix_memalign.         *)
(***************************************************************************)
\* the requests of the model: a size past every size class, and the
\* (alignment, size) pairs passed to posix_memalign
LargeSizes == {ClassBlockSize + 1}
MemalignArgs == {<<1, 1>>, <<3, 1>>, <<4, 1>>}

\* GetSizeClass: the index of the class that serves the size, 0 when none does
GetSizeClass(size) == IF size <= sizeclass.blockSize THEN 1 ELSE 0

\* PAGE_CEILING: the size rounded up to whole pages
PAGE_CEILING(size) == ((size + PAGE - 1) \div PAGE) * PAGE

RECURSIVE BitAndNot(_, _)
\* x & ~m on non-negative integers
BitAndNot(x, m) ==
    IF x = 0 THEN 0
    ELSE (IF x % 2 = 1 /\ m % 2 = 0 THEN 1 ELSE 0) + 2 * BitAndNot(x \div 2, m \div 2)

\* ALIGN_ADDR: (addr + align - 1) & ~(align - 1)
ALIGN_ADDR(addr, align) == BitAndNot(addr + align - 1, align - 1)

RECURSIVE IsPow2(_)
IsPow2(n) == IF n <= 1 THEN n = 1 ELSE n % 2 = 0 /\ IsPow2(n \div 2)

Max(a, b) == IF a > b THEN a ELSE b

\* lr_malloc, lines 498-504: no size class serves the request
StartLargeMalloc(t) ==
    /\ pc[t] = "idle"
    /\ nmallocs < MaxMallocs
    /\ nlarge < MaxLarge
    /\ nmallocs' = nmallocs + 1
    /\ nlarge' = nlarge + 1
    /\ UNCHANGED nrefused
    /\ \E size \in LargeSizes :
         /\ GetSizeClass(size) = 0
         /\ loc' = [loc EXCEPT ![t] = [NoLoc EXCEPT !.op = "malloc", !.size = size,
                                             !.ret = "LM_init"]]
    /\ Goto(t, "DA_load")
    /\ hist' = [hist EXCEPT !.refused = @ \ {t}, !.nullRet = @ \ {t}]
    /\ UNCHANGED <<heapVars, poolVars, descVars, nextPartial, pagemap, mapped, mem,
                   live>>

\* lines 511-515
LM_anchor == MkAnchor(SB_FULL, 0, 0, 0)

\* lines 506-523: the descriptor of a large region is filled in, the region
\* obtained and its first page registered
LM_init(t) ==
    /\ pc[t] = "LM_init"
    /\ LET d == loc[t].desc
           pages == PAGE_CEILING(loc[t].size)
       IN \E s \in Slots \ mapped :
            /\ mapped' = mapped \cup {s}
            /\ dheap' = [dheap EXCEPT ![d] = "null"]
            /\ blockSize' = [blockSize EXCEPT ![d] = pages]
            /\ maxcount' = [maxcount EXCEPT ![d] = 1]
            /\ superblock' = [superblock EXCEPT ![d] = SlotBase(s)]
            /\ anchor' = [anchor EXCEPT ![d] = LM_anchor]
            /\ pagemap' = UpdatePageMap(pagemap, TRUE, SlotBase(s), d, pages)
            /\ ReturnBlock(t, SlotBase(s), d)
    /\ UNCHANGED <<heapVars, poolVars, nextPartial, callVars>>

\* lr_posix_memalign, lines 605-606: the doubled size goes to malloc
StartMemalign(t) ==
    /\ pc[t] = "idle"
    /\ nmallocs < MaxMallocs
    /\ nlarge < MaxLarge
    /\ nmallocs' = nmallocs + 1
    /\ nlarge' = nlarge + 1
    /\ UNCHANGED nrefused
    /\ \E arg \in MemalignArgs :
         LET size == Max(arg[1], arg[2]) * 2
         IN IF GetSizeClass(size) # 0
            THEN /\ loc' = [loc EXCEPT ![t] = [NoLoc EXCEPT !.op = "memalign",
                                                     !.align = arg[1]]]
                 /\ Goto(t, "MA_load")
            ELSE /\ loc' = [loc EXCEPT ![t] = [NoLoc EXCEPT !.op = "memalign",
                                                     !.align = arg[1], !.size = size,
                                                     !.ret = "LM_init"]]
                 /\ Goto(t, "DA_load")
    /\ hist' = [hist EXCEPT !.refused = @ \ {t}, !.nullRet = @ \ {t}]
    /\ UNCHANGED <<heapVars, poolVars, descVars, nextPartial, pagemap, mapped, mem,
                   live>>

\* lines 607-626: ENOMEM for a null block; otherwise the block is aligned,
\* the page of the aligned pointer registered when the region is a large one,
\* and 0 returned
PM_align(t) ==
    /\ pc[t] = "PM_align"
    /\ LET p == loc[t].ptr
           d == pagemap[PageOf(p)]
           q == ALIGN_ADDR(p, loc[t].align)
       IN IF p = 0
          THEN /\ hist' = [hist EXCEPT !.nullRet = @ \cup {t}]
               /\ UNCHANGED <<pagemap, live, mem>>
          ELSE /\ pagemap' = IF d # 0 /\ dheap[d] = "null"
                             THEN UpdatePageMap(pagemap, TRUE, q, d, 0)
                             ELSE pagemap
               /\ live' = live \cup {<<q, d>>}
               /\ hist' = [hist EXCEPT !.dupBlock = @ \/ (q \in LivePtrs),
                                       !.badAlign = @ \/ ~IsPow2(loc[t].align)]
               /\ mem' = IF q \in Addrs THEN [mem EXCEPT ![q] = Garbage] ELSE mem
    /\ Goto(t, "idle")
    /\ loc' = [loc EXCEPT ![t] = NoLoc]
    /\ UNCHANGED <<heapVars, poolVars, descVars, nextPartial, mapped, callVars>>

\* the large path of lr_free unregistering the first page of the region only
LF_free_baseOnly(t) ==
    /\ pc[t] = "LF_free"
    /\ LET s == SlotOf(loc[t].sb)
       IN /\ pagemap' = UpdatePageMap(pagemap, TRUE, loc[t].sb, 0, 0)
          /\ mapped' = mapped \ {s}
          /\ mem' = PageFreeMem(s)
          /\ hist' = [hist EXCEPT !.badPageFree = @ \/ (s \notin mapped)]
    /\ loc' = [loc EXCEPT ![t] = [@ EXCEPT !.ret = "idle"]]
    /\ Goto(t, "DR_load")
    /\ UNCHANGED <<heapVars, poolVars, descVars, nextPartial, live, callVars>>

\* lr_free, lines 686-700: the first page of the region and the page of an
\* aligned pointer are unregistered and the region given back; DescRetire follows
LF_free(t) ==
    /\ pc[t] = "LF_free"
    /\ LET d == loc[t].desc
           s == SlotOf(loc[t].sb)
           pm1 == UpdatePageMap(pagemap, TRUE, loc[t].sb, 0, 0)
       IN /\ pagemap' = IF loc[t].ptr # loc[t].sb
                         THEN UpdatePageMap(pm1, TRUE, loc[t].ptr, 0, 0)
                         ELSE pm1
          /\ mapped' = mapped \ {s}
          /\ mem' = PageFreeMem(s)
          /\ hist' = [hist EXCEPT !.badPageFree = @ \/ (s \notin mapped)]
    /\ loc' = [loc EXCEPT ![t] = [@ EXCEPT !.ret = "idle"]]
    /\ Goto(t, "DR_load")
    /\ UNCHANGED <<heapVars, poolVars, descVars, nextPartial, live, callVars>>

(***************************************************************************)
(* A page provider that fails: PageAlloc returns null.                     *)
(***************************************************************************)
\* MallocFromNewSB, lines 335-352, with a null superblock: the formatting
\* loop stores through the null pointer when the class has more than two blocks
NS_oom(t) ==
    /\ pc[t] = "NS_init"
    /\ nrefused < MaxRefusals
    /\ nrefused' = nrefused + 1
    /\ LET d == loc[t].desc
           mc == GetBlockNum(sizeclass)
       IN IF mc > 2
          THEN /\ Crash(t)
               /\ UNCHANGED <<dheap, blockSize, maxcount, superblock, anchor>>
          ELSE /\ dheap' = [dheap EXCEPT ![d] = "heap"]
               /\ blockSize' = [blockSize EXCEPT ![d] = sizeclass.blockSize]
               /\ maxcount' = [maxcount EXCEPT ![d] = mc]
               /\ superblock' = [superblock EXCEPT ![d] = 0]
               /\ anchor' = [anchor EXCEPT ![d] = NS_anchor(mc)]
               /\ loc' = [loc EXCEPT ![t] = [@ EXCEPT !.credits = NS_credits(mc)]]
               /\ Goto(t, "NS_reg")
    /\ hist' = [hist EXCEPT !.refused = @ \cup {t}]
    /\ UNCHANGED <<heapVars, poolVars, nextPartial, pagemap, mapped, mem, live,
                   nmallocs, nlarge>>

\* lr_malloc, lines 506-523, with a null region: the null pointer is
\* registered and returned
LM_oom(t) ==
    /\ pc[t] = "LM_init"
    /\ nrefused < MaxRefusals
    /\ nrefused' = nrefused + 1
    /\ LET d == loc[t].desc
           pages == PAGE_CEILING(loc[t].size)
       IN /\ dheap' = [dheap EXCEPT ![d] = "null"]
          /\ blockSize' = [blockSize EXCEPT ![d] = pages]
          /\ maxcount' = [maxcount EXCEPT ![d] = 1]
          /\ superblock' = [superblock EXCEPT ![d] = 0]
          /\ anchor' = [anchor EXCEPT ![d] = LM_anchor]
          /\ pagemap' = UpdatePageMap(pagemap, TRUE, 0, d, pages)
    /\ IF loc[t].op = "memalign"
       THEN /\ Goto(t, "PM_align")
            /\ loc' = [loc EXCEPT ![t] = [NoLoc EXCEPT !.op = "memalign", !.ptr = 0,
                                                !.align = loc[t].align]]
            /\ hist' = [hist EXCEPT !.refused = @ \cup {t}]
       ELSE /\ Goto(t, "idle")
            /\ loc' = [loc EXCEPT ![t] = NoLoc]
            /\ hist' = [hist EXCEPT !.refused = @ \cup {t}, !.nullRet = @ \cup {t}]
    /\ UNCHANGED <<heapVars, poolVars, nextPartial, mapped, mem, live, nmallocs, nlarge>>

\* DescAlloc, lines 401-424, with a null region: the links of the new
\* descriptors are stored through the null pointer
DA_oom(t) ==
    /\ pc[t] = "DA_read"
    /\ nrefused < MaxRefusals
    /\ nrefused' = nrefused + 1
    /\ loc[t].oldHead.desc = 0
    /\ Crash(t)
    /\ UNCHANGED <<heapVars, poolVars, descVars, nextPartial, pagemap, mapped, mem,
                   live, nmallocs, nlarge, hist>>

(***************************************************************************)
(* The threads call malloc and free in any order and any interleaving.     *)
(***************************************************************************)
Next ==
    \E t \in Threads :
        \/ StartMalloc(t)
        \/ MA_load(t) \/ MA_cas(t) \/ MA_aload(t) \/ MA_read(t) \/ MA_acas(t)
        \/ UA_load(t) \/ UA_cas(t) \/ UA_aload(t) \/ UA_acas(t)
        \/ LPush_load(t) \/ LPush_cas(t)
        \/ LP_load(t) \/ LP_read(t) \/ LP_cas(t)
        \/ MP_aload(t) \/ MP_rcas(t) \/ MP_aload2(t) \/ MP_read(t) \/ MP_pcas(t)
        \/ DA_load(t) \/ DA_read(t) \/ DA_cas(t) \/ DA_carve(t) \/ DA_pushcas(t)
        \/ DR_load(t) \/ DR_cas(t)
        \/ NS_init(t) \/ NS_reg(t) \/ NS_install(t) \/ NS_fail(t)
        \/ F_start(t) \/ F_aload(t) \/ F_cas(t) \/ F_empty(t)

Spec == Init /\ [][Next]_vars

\* the steps of a call of thread t that has started: the scheduler runs every
\* thread that can take a step
CallStep(t) ==
    \/ MA_load(t) \/ MA_cas(t) \/ MA_aload(t) \/ MA_read(t) \/ MA_acas(t)
    \/ UA_load(t) \/ UA_cas(t) \/ UA_aload(t) \/ UA_acas(t)
    \/ LPush_load(t) \/ LPush_cas(t)
    \/ LP_load(t) \/ LP_read(t) \/ LP_cas(t)
    \/ MP_aload(t) \/ MP_rcas(t) \/ MP_aload2(t) \/ MP_read(t) \/ MP_pcas(t)
    \/ DA_load(t) \/ DA_read(t) \/ DA_cas(t) \/ DA_carve(t) \/ DA_pushcas(t)
    \/ DR_load(t) \/ DR_cas(t)
    \/ NS_init(t) \/ NS_reg(t) \/ NS_install(t) \/ NS_fail(t)
    \/ F_aload(t) \/ F_cas(t) \/ F_empty(t)

SpecFair == Init /\ [][Next]_vars /\ \A t \in Threads : WF_vars(CallStep(t))

\* the same threads also use the large path and posix_memalign
LargeStep(t) == StartLargeMalloc(t) \/ LM_init(t) \/ LF_free(t)

AlignStep(t) == StartMemalign(t) \/ PM_align(t)

NextLarge == Next \/ \E t \in Threads : (LargeStep(t) \/ AlignStep(t))

SpecLarge == Init /\ [][NextLarge]_vars

\* malloc and free with a page provider that may refuse a request
OomStep(t) == NS_oom(t) \/ LM_oom(t) \/ DA_oom(t)

NextOom == Next \/ \E t \in Threads : (LargeStep(t) \/ OomStep(t))

SpecOom == Init /\ [][NextOom]_vars

(***************************************************************************)
(* One thread exhausts a superblock and drains it: it calls malloc once    *)
(* more than a superblock has blocks, then frees the blocks of the first   *)
(* superblock, in any order.                                               *)
(***************************************************************************)
\* classes of 2, 3 and 4 blocks per superblock
DrainClasses ==
    {[blockSize |-> ClassBlockSize, sbSize |-> n * ClassBlockSize] : n \in 2..4}

InitDrain ==
    /\ active = NullActive
    /\ partialList = NullNode
    /\ sizeclass \in DrainClasses
    /\ AvailDesc = NullNode
    /\ nextFree = [d \in Descs |-> NullNode]
    /\ nextPartial = [d \in Descs |-> NullNode]
    /\ anchor = [d \in Descs |-> ZeroAnchor]
    /\ superblock = [d \in Descs |-> 0]
    /\ dheap = [d \in Descs |-> "null"]
    /\ blockSize = [d \in Descs |-> 0]
    /\ maxcount = [d \in Descs |-> 0]
    /\ carved = 0
    /\ pagemap = [p \in Pages |-> 0]
    /\ mapped = {}
    /\ mem = [a \in Addrs |-> Garbage]
    /\ pc = [t \in Threads |-> "idle"]
    /\ loc = [t \in Threads |-> NoLoc]
    /\ live = {}
    /\ nmallocs = 0
    /\ nlarge = 0
    /\ nrefused = 0
    /\ hist = NoHist

\* the next malloc of the thread, while it has freed nothing
ED_malloc(t) ==
    /\ pc[t] = "idle"
    /\ Cardinality(live) = nmallocs
    /\ nmallocs < GetBlockNum(sizeclass) + 1
    /\ nmallocs' = nmallocs + 1
    /\ UNCHANGED <<nlarge, nrefused>>
    /\ pc' = [pc EXCEPT ![t] = "MA_load"]
    /\ loc' = [loc EXCEPT ![t] = [NoLoc EXCEPT !.op = "malloc"]]
    /\ UNCHANGED <<heapVars, poolVars, descVars, nextPartial, pagemap, mapped, mem,
                   live, hist>>

\* after the last malloc: free of a block of the first superblock, which is
\* not the active one
ED_free(t) ==
    /\ nmallocs = GetBlockNum(sizeclass) + 1
    /\ F_start(t)
    /\ \A b \in live \ live' : b[2] # active.desc

NextDrain ==
    \/ ED_malloc(1) \/ ED_free(1)
    \/ MA_load(1) \/ MA_cas(1) \/ MA_aload(1) \/ MA_read(1) \/ MA_acas(1)
    \/ LP_load(1) \/ LP_read(1)
    \/ DA_load(1) \/ DA_read(1) \/ DA_cas(1) \/ DA_carve(1) \/ DA_pushcas(1)
    \/ NS_init(1) \/ NS_reg(1) \/ NS_install(1)
    \/ F_aload(1) \/ F_cas(1) \/ F_empty(1)
    \/ LPush_load(1) \/ LPush_cas(1)

SpecDrain == InitDrain /\ [][NextDrain]_vars

(***************************************************************************)
(* The new-superblock race: on a fresh heap the threads call malloc twice  *)
(* in all and free nothing; the scheduler runs every thread that can take  *)
(* a step.                                                                 *)
(***************************************************************************)
RaceMalloc(t) == nmallocs < 2 /\ StartMalloc(t)

RaceStep(t) ==
    \/ MA_load(t) \/ MA_cas(t) \/ MA_aload(t) \/ MA_read(t) \/ MA_acas(t)
    \/ LP_load(t) \/ LP_read(t)
    \/ DA_load(t) \/ DA_read(t) \/ DA_cas(t) \/ DA_carve(t) \/ DA_pushcas(t)
    \/ DR_load(t) \/ DR_cas(t)
    \/ NS_init(t) \/ NS_reg(t) \/ NS_install(t) \/ NS_fail(t)

NextRace == \E t \in Threads : RaceMalloc(t) \/ RaceStep(t)

SpecRace == Init /\ [][NextRace]_vars /\ \A t \in Threads : WF_vars(RaceStep(t))

(***************************************************************************)
(* The wake-up of a FULL superblock: one thread fills a superblock, then   *)
(* WakeRounds times frees one of its blocks and calls malloc again.        *)
(***************************************************************************)
W_malloc(t) ==
    /\ pc[t] = "idle"
    /\ LET m == GetBlockNum(sizeclass)
       IN \/ Cardinality(live) = nmallocs /\ nmallocs < m
          \/ nmallocs >= m /\ Cardinality(live) = m - 1 /\ nmallocs < m + WakeRounds
    /\ nmallocs' = nmallocs + 1
    /\ UNCHANGED <<nlarge, nrefused>>
    /\ pc' = [pc EXCEPT ![t] = "MA_load"]
    /\ loc' = [loc EXCEPT ![t] = [NoLoc EXCEPT !.op = "malloc"]]
    /\ UNCHANGED <<heapVars, poolVars, descVars, nextPartial, pagemap, mapped, mem,
                   live, hist>>

W_free(t) ==
    /\ nmallocs >= GetBlockNum(sizeclass)
    /\ Cardinality(live) = GetBlockNum(sizeclass)
    /\ F_start(t)

NextWake ==
    \/ W_malloc(1) \/ W_free(1)
    \/ MA_load(1) \/ MA_cas(1) \/ MA_aload(1) \/ MA_read(1) \/ MA_acas(1)
    \/ LP_load(1) \/ LP_read(1) \/ LP_cas(1)
    \/ MP_aload(1) \/ MP_rcas(1) \/ MP_aload2(1) \/ MP_read(1) \/ MP_pcas(1)
    \/ DA_load(1) \/ DA_carve(1) \/ DA_pushcas(1)
    \/ NS_init(1) \/ NS_reg(1) \/ NS_install(1)
    \/ F_aload(1) \/ F_cas(1)
    \/ LPush_load(1) \/ LPush_cas(1)

SpecWake == InitDrain /\ [][NextWake]_vars

(***************************************************************************)
(* Allocate, then free: the threads bring the allocator to a state where   *)
(* no call is running; thread 1 then records the state, calls malloc, of a *)
(* small or a large size, and passes the block returned to free.           *)
(***************************************************************************)
RECURSIVE ChainSeq(_, _, _)
\* the descriptors reached from d along the links next, in order
ChainSeq(next, d, fuel) ==
    IF d = 0 \/ fuel = 0 THEN <<>>
    ELSE <<d>> \o ChainSeq(next, next[d].desc, fuel - 1)

PartialSeq == ChainSeq(nextPartial, partialList.desc, Cardinality(Descs))

L_malloc(t) ==
    /\ \A u \in Threads : pc[u] = "idle"
    /\ ~hist.before.taken
    /\ nmallocs' = nmallocs + 1
    /\ UNCHANGED <<nlarge, nrefused>>
    /\ \E size \in {sizeclass.blockSize} \cup LargeSizes :
         /\ IF GetSizeClass(size) # 0
            THEN /\ pc' = [pc EXCEPT ![t] = "MA_load"]
                 /\ loc' = [loc EXCEPT ![t] = [NoLoc EXCEPT !.op = "malloc"]]
            ELSE /\ pc' = [pc EXCEPT ![t] = "DA_load"]
                 /\ loc' = [loc EXCEPT ![t] = [NoLoc EXCEPT !.op = "malloc",
                                                     !.size = size, !.ret = "LM_init"]]
         /\ hist' = [hist EXCEPT !.before =
                        [taken |-> TRUE, anchor |-> anchor, active |-> active,
                         partial |-> PartialSeq, pagemap |-> pagemap, mapped |-> mapped,
                         live |-> live,
                         bound |-> {d \in Descs : dheap[d] = "heap" /\ superblock[d] # 0
                                                  /\ SlotOf(superblock[d]) \in mapped
                                                  /\ pagemap[PageOf(superblock[d])] = d},
                         large |-> GetSizeClass(size) = 0]]
    /\ UNCHANGED <<heapVars, poolVars, descVars, nextPartial, pagemap, mapped, mem,
                   live>>

\* the block the malloc has returned goes to free
L_free(t) ==
    /\ hist.before.taken
    /\ F_start(t)
    /\ live' = hist.before.live

\* the calls that bring the allocator to the state recorded
P_malloc(t) == ~hist.before.taken /\ StartMalloc(t)

P_free(t) == ~hist.before.taken /\ F_start(t)

NextLaw ==
    \/ \E t \in Threads :
          \/ P_malloc(t) \/ P_free(t)
          \/ CallStep(t) \/ LM_init(t) \/ LF_free(t)
    \/ L_malloc(1) \/ L_free(1)

SpecLaw == Init /\ [][NextLaw]_vars

(***************************************************************************)
(* Concurrent pushes on the partial list: thread 1 fills two superblocks,  *)
(* then the threads free the blocks in any interleaving and call malloc    *)
(* PushRounds times more.                                                  *)
(***************************************************************************)
PushFill(t) ==
    /\ t = 1
    /\ pc[t] = "idle"
    /\ Cardinality(live) = nmallocs
    /\ nmallocs < 2 * GetBlockNum(sizeclass)
    /\ nmallocs' = nmallocs + 1
    /\ UNCHANGED <<nlarge, nrefused>>
    /\ pc' = [pc EXCEPT ![t] = "MA_load"]
    /\ loc' = [loc EXCEPT ![t] = [NoLoc EXCEPT !.op = "malloc"]]
    /\ UNCHANGED <<heapVars, poolVars, descVars, nextPartial, pagemap, mapped, mem,
                   live, hist>>

PushMalloc(t) ==
    /\ pc[t] = "idle"
    /\ nmallocs >= 2 * GetBlockNum(sizeclass)
    /\ nmallocs < 2 * GetBlockNum(sizeclass) + PushRounds
    /\ nmallocs' = nmallocs + 1
    /\ UNCHANGED <<nlarge, nrefused>>
    /\ pc' = [pc EXCEPT ![t] = "MA_load"]
    /\ loc' = [loc EXCEPT ![t] = [NoLoc EXCEPT !.op = "malloc"]]
    /\ UNCHANGED <<heapVars, poolVars, descVars, nextPartial, pagemap, mapped, mem,
                   live, hist>>

PushFree(t) ==
    /\ nmallocs >= 2 * GetBlockNum(sizeclass)
    /\ F_start(t)

NextPush ==
    \E t \in Threads :
        \/ PushFill(t) \/ PushMalloc(t) \/ PushFree(t)
        \/ CallStep(t)

\* a fresh heap of the class of two blocks per superblock
InitPush == Init /\ GetBlockNum(sizeclass) = 2

SpecPush == InitPush /\ [][NextPush]_vars

(***************************************************************************)
(* Pushes and pops on the partial list with one thread more: thread 1      *)
(* fills two superblocks of two blocks; thread 3 then calls free once, the *)
(* first free of all; threads 1 and 2 call malloc in turn, AbaRounds times *)
(* in all, and thread 1 calls free; the callers keep one block of every    *)
(* superblock. The steps of the calls interleave in any way.               *)
(***************************************************************************)
AbaThreads == 1..(NThreads + 1)

InitAba ==
    /\ active = NullActive
    /\ partialList = NullNode
    /\ sizeclass \in {c \in Classes : c.sbSize = 2 * c.blockSize}
    /\ AvailDesc = NullNode
    /\ nextFree = [d \in Descs |-> NullNode]
    /\ nextPartial = [d \in Descs |-> NullNode]
    /\ anchor = [d \in Descs |-> ZeroAnchor]
    /\ superblock = [d \in Descs |-> 0]
    /\ dheap = [d \in Descs |-> "null"]
    /\ blockSize = [d \in Descs |-> 0]
    /\ maxcount = [d \in Descs |-> 0]
    /\ carved = 0
    /\ pagemap = [p \in Pages |-> 0]
    /\ mapped = {}
    /\ mem = [a \in Addrs |-> Garbage]
    /\ pc = [t \in AbaThreads |-> "idle"]
    /\ loc = [t \in AbaThreads |-> NoLoc]
    /\ live = {}
    /\ nmallocs = 0
    /\ nlarge = 0
    /\ nrefused = 0
    /\ hist = NoHist

AbaMalloc(t) ==
    /\ t \in {1, 2}
    /\ pc[t] = "idle"
    /\ nmallocs >= 2 * GetBlockNum(sizeclass)
    /\ nmallocs < 2 * GetBlockNum(sizeclass) + AbaRounds
    /\ (t = 2) = ((nmallocs - 2 * GetBlockNum(sizeclass)) % 2 = 1)
    /\ nmallocs' = nmallocs + 1
    /\ UNCHANGED <<nlarge, nrefused>>
    /\ pc' = [pc EXCEPT ![t] = "MA_load"]
    /\ loc' = [loc EXCEPT ![t] = [NoLoc EXCEPT !.op = "malloc"]]
    /\ UNCHANGED <<heapVars, poolVars, descVars, nextPartial, pagemap, mapped, mem,
                   live, hist>>

\* thread 3 frees a block of the superblock filled last, thread 1 blocks of
\* the superblock filled first: the block in use at the lowest address
AbaFree(t) ==
    /\ t \in {1, 3}
    /\ nmallocs >= 2 * GetBlockNum(sizeclass)
    /\ (t = 3) = (Cardinality(live) = nmallocs)
    /\ F_start(t)
    /\ \A b \in live : \E c \in live' : c[2] = b[2]
    /\ \A b \in live \ live' :
          /\ IF t = 3 THEN \A c \in live : c[2] <= b[2]
                      ELSE \A c \in live : c[2] >= b[2]
          /\ \A c \in live : c[2] = b[2] => c[1] >= b[1]

NextAba ==
    \E t \in AbaThreads :
        \/ PushFill(t) \/ AbaMalloc(t) \/ AbaFree(t)
        \/ MA_load(t) \/ MA_cas(t) \/ MA_aload(t) \/ MA_read(t) \/ MA_acas(t)
        \/ LPush_load(t) \/ LPush_cas(t)
        \/ LP_load(t) \/ LP_read(t) \/ LP_cas(t)
        \/ MP_aload(t) \/ MP_rcas(t) \/ MP_aload2(t) \/ MP_read(t) \/ MP_pcas(t)
        \/ DA_load(t) \/ DA_read(t) \/ DA_cas(t) \/ DA_carve(t) \/ DA_pushcas(t)
        \/ NS_init(t) \/ NS_reg(t) \/ NS_install(t)
        \/ F_aload(t) \/ F_cas(t)

SpecAba == InitAba /\ [][NextAba]_vars

(***************************************************************************)
(* A superblock taken from the partial list while a pop is in flight:      *)
(* thread 1 fills three superblocks of two blocks; then thread 3 calls     *)
(* free once, thread 1 calls free twice, thread 2 calls malloc once,       *)
(* thread 1 calls malloc twice, free once and malloc once more; a call     *)
(* starts when the calls before it in this order have started. The callers *)
(* keep one block of every superblock, and the page provider hands out the *)
(* superblocks in the order of their addresses. The steps of the calls     *)
(* interleave in any way.                                                  *)
(***************************************************************************)
ReuseFill(t) ==
    /\ t = 1
    /\ pc[t] = "idle"
    /\ Cardinality(live) = nmallocs
    /\ nmallocs < 3 * GetBlockNum(sizeclass)
    /\ nmallocs' = nmallocs + 1
    /\ UNCHANGED <<nlarge, nrefused>>
    /\ pc' = [pc EXCEPT ![t] = "MA_load"]
    /\ loc' = [loc EXCEPT ![t] = [NoLoc EXCEPT !.op = "malloc"]]
    /\ UNCHANGED <<heapVars, poolVars, descVars, nextPartial, pagemap, mapped, mem,
                   live, hist>>

\* the calls of free started since the filling
ReuseFrees ==
    nmallocs - Cardinality(live) - Cardinality({t \in DOMAIN pc : loc[t].op = "malloc"})

\* the calls of malloc started since the filling
ReuseMallocs == nmallocs - 3 * GetBlockNum(sizeclass)

ReuseMalloc(t) ==
    /\ t \in {1, 2}
    /\ pc[t] = "idle"
    /\ ReuseMallocs >= 0
    /\ ReuseMallocs < ReuseRounds
    /\ (t = 2) = (ReuseMallocs = 0)
    /\ ReuseFrees = (IF ReuseMallocs < 3 THEN 3 ELSE 4)
    /\ nmallocs' = nmallocs + 1
    /\ UNCHANGED <<nlarge, nrefused>>
    /\ pc' = [pc EXCEPT ![t] = "MA_load"]
    /\ loc' = [loc EXCEPT ![t] = [NoLoc EXCEPT !.op = "malloc"]]
    /\ UNCHANGED <<heapVars, poolVars, descVars, nextPartial, pagemap, mapped, mem,
                   live, hist>>

\* thread 3 frees a block of the superblock filled last, thread 1 one of a
\* superblock with both blocks in use: the one filled first before the calls
\* of malloc, the one filled last after them; each free is of the block in
\* use at the lowest address of its superblock
ReuseFree(t) ==
    /\ t \in {1, 3}
    /\ ReuseMallocs \in {0, 3}
    /\ (t = 3) = (ReuseFrees = 0)
    /\ ReuseFrees < (IF ReuseMallocs = 0 THEN 3 ELSE 4)
    /\ F_start(t)
    /\ \A b \in live : \E c \in live' : c[2] = b[2]
    /\ \A b \in live \ live' :
          /\ t = 3 => \A c \in live : c[2] <= b[2]
          /\ (t = 1 /\ ReuseMallocs = 0) =>
                \A c \in live : Cardinality({e \in live : e[2] = c[2]}) = 2 => c[2] >= b[2]
          /\ (t = 1 /\ ReuseMallocs = 3) =>
                \A c \in live : Cardinality({e \in live : e[2] = c[2]}) = 2 => c[2] <= b[2]
          /\ \A c \in live : c[2] = b[2] => c[1] >= b[1]

\* the page provider hands out the superblocks in the order of their addresses
ReuseInit(t) == NS_init(t) /\ mapped' = 1..Cardinality(mapped')

NextReuse ==
    \E t \in AbaThreads :
        \/ ReuseFill(t) \/ ReuseMalloc(t) \/ ReuseFree(t)
        \/ MA_load(t) \/ MA_cas(t) \/ MA_aload(t) \/ MA_read(t) \/ MA_acas(t)
        \/ LPush_load(t) \/ LPush_cas(t)
        \/ LP_load(t) \/ LP_read(t) \/ LP_cas(t)
        \/ MP_aload(t) \/ MP_rcas(t) \/ MP_aload2(t) \/ MP_read(t) \/ MP_pcas(t)
        \/ DA_load(t) \/ DA_read(t) \/ DA_cas(t) \/ DA_carve(t) \/ DA_pushcas(t)
        \/ ReuseInit(t) \/ NS_reg(t) \/ NS_install(t)
        \/ F_aload(t) \/ F_cas(t)
        \/ UA_load(t) \/ UA_cas(t)

SpecReuse == InitAba /\ [][NextReuse]_vars

\* the statements the thread of SpecDrain executes
DrainLabels ==
    {"idle", "MA_load", "MA_cas", "MA_aload", "MA_read", "MA_acas", "LP_load",
     "LP_read", "DA_load", "DA_read", "DA_cas", "DA_pushcas", "NS_init", "NS_reg",
     "NS_cas", "F_aload", "F_cas", "F_empty", "LPush_load", "LPush_cas"}

(***************************************************************************)
(* Vocabulary of the properties.                                           *)
(***************************************************************************)
RECURSIVE Chain(_, _, _)
\* the descriptors reached from d along the links next, at most fuel of them
Chain(next, d, fuel) ==
    IF d = 0 \/ fuel = 0 THEN {}
    ELSE {d} \cup Chain(next, next[d].desc, fuel - 1)

\* the descriptors in the descriptor pool and on the partial list
PoolSet == Chain(nextFree, AvailDesc.desc, Cardinality(Descs))
PartialSet == Chain(nextPartial, partialList.desc, Cardinality(Descs))

\* the pages of the superblock of a small-class descriptor
SbPages(base) == PagesWritten(FALSE, base, sizeclass.sbSize)

\* thread t has taken a credit or a block of descriptor d and not yet returned
MallocHolds(t, d) ==
    /\ loc[t].desc = d
    /\ \/ pc[t] \in {"MA_aload", "MA_read", "MA_acas", "MP_aload2", "MP_read",
                     "MP_pcas", "UA_load", "UA_cas", "UA_aload", "UA_acas"}
       \/ pc[t] \in {"LPush_load", "LPush_cas"} /\ loc[t].op # "free"

\* thread t was passed a block of descriptor d and has not pushed it yet
FreeHolds(t, d) == loc[t].desc = d /\ pc[t] \in {"F_aload", "F_cas"}

Users(d) == Cardinality({b \in live : b[2] = d})

Quiescent == \A t \in Threads : pc[t] = "idle"

\* descriptor d is bound to a small-class superblock the provider has not got back
BoundSmall(d) ==
    /\ dheap[d] = "heap"
    /\ superblock[d] # 0
    /\ SlotOf(superblock[d]) \in mapped
    /\ pagemap[PageOf(superblock[d])] = d

(***************************************************************************)
(* C1: no two malloc calls return the same block unless it was passed to   *)
(* free between the two returns: no call has ever returned a block that    *)
(* was live at the time.                                                   *)
(***************************************************************************)
C1_UniqueBlocks == ~hist.dupBlock

\* two blocks of one superblock are live while another malloc competes for it
C1_Witness ==
    /\ \E b1, b2 \in live : b1[1] # b2[1] /\ b1[2] = b2[2]
    /\ \E t \in Threads : loc[t].op = "malloc"

(***************************************************************************)
(* C2: every live block lies in the superblock of the descriptor that      *)
(* handed it out and its page maps to that descriptor; every page of the   *)
(* superblock of the active descriptor maps to it.                         *)
(***************************************************************************)
C2_PageMapOwner ==
    /\ \A b \in live :
          /\ pagemap[PageOf(b[1])] = b[2]
          /\ superblock[b[2]] <= b[1]
          /\ b[1] < superblock[b[2]] + sizeclass.sbSize
    /\ active.desc # 0 =>
          \A pg \in SbPages(superblock[active.desc]) : pagemap[pg] = active.desc

\* a block on the second page of its superblock is live
C2_Witness ==
    \E b \in live : PageOf(b[1]) # PageOf(superblock[b[2]])

(***************************************************************************)
(* C3: when the anchor of a small-class descriptor is EMPTY, and when a    *)
(* superblock is about to be handed to PageFree, no block of it is live,   *)
(* none is being freed and no malloc holds a credit or a block of it.      *)
(***************************************************************************)
C3_EmptyNoLive ==
    /\ \A d \in Descs :
          (dheap[d] = "heap" /\ anchor[d].state = SB_EMPTY) =>
              /\ Users(d) = 0
              /\ active.desc # d
              /\ \A t \in Threads : ~MallocHolds(t, d) /\ ~FreeHolds(t, d)
    /\ \A t \in Threads :
          pc[t] = "F_empty" =>
              /\ \A b \in live : SlotOf(b[1]) # SlotOf(loc[t].sb)
              /\ \A u \in Threads :
                    (MallocHolds(u, loc[u].desc) \/ FreeHolds(u, loc[u].desc))
                        => superblock[loc[u].desc] # loc[t].sb

\* a free has emptied a superblock and is about to give it back
C3_Witness ==
    \E t \in Threads :
        /\ pc[t] = "F_empty"
        /\ anchor[loc[t].desc].state = SB_EMPTY
        /\ dheap[loc[t].desc] = "heap"

(***************************************************************************)
(* C4: at every quiescent state, for every small-class superblock not yet  *)
(* returned to the provider, the blocks held by users, anchor.count and    *)
(* the credits + 1 of the active pointer (when it references the           *)
(* descriptor) add up to maxcount.                                         *)
(***************************************************************************)
C4_NoLostBlock ==
    Quiescent =>
        \A d \in Descs :
            BoundSmall(d) =>
                Users(d) + anchor[d].count
                    + (IF active.desc = d THEN active.credits + 1 ELSE 0) = maxcount[d]

(***************************************************************************)
(* C8: no descriptor of the descriptor pool is held by a page-map entry,   *)
(* is on the partial list or is referenced by the active pointer.          *)
(***************************************************************************)
C8_PoolUnreachable ==
    \A d \in PoolSet :
        /\ \A pg \in Pages : pagemap[pg] # d
        /\ d \notin PartialSet
        /\ active.desc # d

(***************************************************************************)
(* C9: DescAlloc never returns a descriptor that an earlier DescAlloc      *)
(* returned and DescRetire has not been called on since; a descriptor of   *)
(* the pool is owned by no caller, and only a descriptor that DescAlloc    *)
(* returned to the thread is bound to a superblock by it.                  *)
(***************************************************************************)
C9_DescOwnedOnce ==
    /\ ~hist.dupDesc
    /\ PoolSet \cap hist.owned = {}
    /\ \A t \in Threads :
          pc[t] \in {"NS_init", "NS_reg", "NS_cas", "LM_init"} =>
              /\ loc[t].desc \in hist.owned
              /\ \A u \in Threads \ {t} :
                    pc[u] \in {"NS_init", "NS_reg", "NS_cas", "LM_init"}
                        => loc[u].desc # loc[t].desc

\* a retired descriptor has come back through DescAlloc and is being bound again
C9_Witness ==
    \E t \in Threads :
        /\ pc[t] = "NS_init"
        /\ anchor[loc[t].desc].state = SB_EMPTY

(***************************************************************************)
(* C10: the active pointer is null or references a descriptor whose anchor *)
(* state is ACTIVE and which is not in the descriptor pool.                *)
(***************************************************************************)
C10_ActiveIsActive ==
    active.desc # 0 =>
        /\ anchor[active.desc].state = SB_ACTIVE
        /\ active.desc \notin PoolSet

\* the active pointer references a descriptor that a malloc has popped a block
\* from, and that block is live
C10_Witness ==
    /\ active.desc # 0
    /\ anchor[active.desc].tag > 0
    /\ Users(active.desc) > 0

(***************************************************************************)
(* C5: with a provider that always succeeds and a weakly fair scheduler,   *)
(* every malloc and every free call that has started returns.              *)
(***************************************************************************)
C5_Progress == \A t \in Threads : (pc[t] # "idle") ~> (pc[t] = "idle")

\* a call has lost the race for the active pointer and goes round the loop
\* of lr_malloc once more
C5_Witness ==
    \E t \in Threads : pc[t] = "DR_cas" /\ loc[t].ret = "MA_load"

(***************************************************************************)
(* C6: a malloc call that the page provider refused the superblock or the  *)
(* region it needed returns null: it does not fault, and when it has       *)
(* returned it has returned null.                                          *)
(***************************************************************************)
C6_OomReturnsNull ==
    \A t \in hist.refused :
        /\ pc[t] # "crashed"
        /\ pc[t] = "idle" => t \in hist.nullRet

(***************************************************************************)
(* C7: posix_memalign with an alignment that is not a power of two hands   *)
(* out no block and does not return 0.                                     *)
(***************************************************************************)
C7_BadAlignRejected == ~hist.badAlign

(***************************************************************************)
(* C11: every descriptor bound to a small-class superblock has             *)
(* anchor.count <= maxcount - 1: no free, credit refill, credit return or  *)
(* partial reservation takes count above it or wraps it around.            *)
(***************************************************************************)
C11_CountBounded ==
    \A d \in Descs : BoundSmall(d) => anchor[d].count <= maxcount[d] - 1

\* a superblock that has all its blocks but one back, the last one still out
C11_Witness ==
    \E d \in Descs :
        /\ BoundSmall(d)
        /\ anchor[d].count = maxcount[d] - 1
        /\ anchor[d].state # SB_EMPTY
        /\ anchor[d].tag > 0

(***************************************************************************)
(* C12: every descriptor bound to a live small-class superblock whose      *)
(* anchor state is not FULL has anchor.avail < maxcount.                   *)
(***************************************************************************)
C12_AvailInRange ==
    \A d \in Descs :
        (BoundSmall(d) /\ anchor[d].state # SB_FULL) => anchor[d].avail < maxcount[d]

\* the link of the last free block, which nobody wrote, has reached avail of
\* a FULL superblock
C12_Witness ==
    \E d \in Descs :
        /\ BoundSmall(d)
        /\ anchor[d].state = SB_FULL
        /\ anchor[d].avail >= maxcount[d]

(***************************************************************************)
(* C13: single-thread exhaust-and-drain, for classes of m = 2, 3, 4 blocks *)
(* per superblock. From a fresh heap the first m mallocs return m distinct *)
(* blocks of one superblock and leave it FULL with heap.active null; the   *)
(* (m+1)-th malloc obtains a new superblock; the first superblock stays    *)
(* with the allocator while one of its blocks is live, and freeing all m   *)
(* drives its anchor to EMPTY and hands it to PageFree exactly once.       *)
(***************************************************************************)
C13_ExhaustAndDrain ==
    LET m == GetBlockNum(sizeclass)
        n == Cardinality(live)
        firsts == {d \in Descs : dheap[d] = "heap" /\ active.desc # d}
    IN /\ pc[1] \in DrainLabels
       /\ ~hist.dupBlock /\ ~hist.badPageFree
       /\ (pc[1] = "idle" /\ n = nmallocs /\ n >= 1 /\ n <= m) =>
             /\ Cardinality(LivePtrs) = n
             /\ Cardinality(mapped) = 1
             /\ \E d \in Descs :
                   /\ \A b \in live :
                         /\ b[2] = d
                         /\ superblock[d] <= b[1]
                         /\ b[1] < superblock[d] + sizeclass.sbSize
                   /\ n = m => (anchor[d].state = SB_FULL /\ active = NullActive)
       /\ (pc[1] = "idle" /\ nmallocs = m + 1) =>
             /\ active.desc # 0
             /\ Users(active.desc) = 1
             /\ SlotOf(superblock[active.desc]) \in mapped
             /\ Cardinality(firsts) = 1
             /\ \A d \in firsts :
                   /\ Users(d) = n - 1
                   /\ superblock[d] # superblock[active.desc]
                   /\ n > 1 => (BoundSmall(d) /\ anchor[d].state # SB_EMPTY)
                   /\ n = 1 => /\ anchor[d].state = SB_EMPTY
                               /\ SlotOf(superblock[d]) \notin mapped
                               /\ \A pg \in Pages : pagemap[pg] # d
                               /\ Cardinality(mapped) = 1

\* the thread has freed the last block of the first superblock of a class of
\* four blocks, and the call has returned
C13_Witness ==
    /\ pc[1] = "idle"
    /\ GetBlockNum(sizeclass) = 4
    /\ nmallocs = 5
    /\ Cardinality(live) = 1
    /\ \E d \in Descs : anchor[d].state = SB_EMPTY /\ dheap[d] = "heap"

(***************************************************************************)
(* C14: the new-superblock race. When two threads run MallocFromNewSB on a *)
(* heap whose active pointer is null, exactly one installs its descriptor  *)
(* and returns block 0; the other, before it retires its descriptor and    *)
(* returns null to the loop of lr_malloc, has unregistered its pages and   *)
(* given its superblock back; once retired its descriptor is in the pool;  *)
(* and its malloc call still returns a block.                              *)
(***************************************************************************)
RaceLosing(t) == pc[t] \in {"DR_load", "DR_cas"} /\ loc[t].ret = "MA_load"

RaceWinners == {d \in Descs : <<superblock[d], d>> \in live}

RaceInv ==
    /\ ~hist.dupBlock /\ ~hist.badPageFree
    /\ \A t \in Threads : pc[t] # "crashed"
    /\ Cardinality(RaceWinners) <= 1
    /\ \A t \in Threads :
          RaceLosing(t) =>
              /\ RaceWinners = {active.desc}
              /\ loc[t].desc \notin RaceWinners
              /\ SlotOf(superblock[loc[t].desc]) \notin mapped
              /\ \A pg \in Pages : pagemap[pg] # loc[t].desc
    /\ \A d \in Descs :
          (/\ dheap[d] = "heap"
           /\ d \notin RaceWinners
           /\ \A t \in Threads :
                 ~(loc[t].desc = d /\ pc[t] \in {"NS_reg", "NS_cas", "DR_load", "DR_cas"}))
          => /\ d \in PoolSet
             /\ SlotOf(superblock[d]) \notin mapped
             /\ \A pg \in Pages : pagemap[pg] # d
    /\ (Quiescent /\ nmallocs >= 1) =>
          /\ Cardinality(RaceWinners) = 1
          /\ Cardinality(mapped) = 1
          /\ Cardinality(LivePtrs) = nmallocs
          /\ \A b \in live : b[2] \in RaceWinners

C14_NewSBRace ==
    /\ []RaceInv
    /\ \A t \in Threads : RaceLosing(t) ~> (pc[t] = "idle")

\* one thread has installed its superblock and returned block 0, the other has
\* lost the race, given its superblock back and is retiring its descriptor
C14_Witness ==
    \E t, u \in Threads :
        /\ pc[t] = "DR_load" /\ loc[t].ret = "MA_load"
        /\ pc[u] = "idle"
        /\ live = {<<superblock[active.desc], active.desc>>}
        /\ loc[t].desc # active.desc

(***************************************************************************)
(* C15: FULL-to-PARTIAL wake-up. Whenever the anchor CAS of a free changes *)
(* a descriptor from FULL to PARTIAL, the descriptor is not on the partial *)
(* list, and that free pushes it on the list, once; a malloc that follows  *)
(* and finds heap.active null returns a block of that descriptor and       *)
(* requests no superblock from the page provider.                          *)
(***************************************************************************)
WakeAct ==
    \A t \in Threads :
        /\ (/\ pc[t] = "F_cas" /\ pc'[t] # "F_cas"
            /\ anchor[loc[t].desc].state = SB_FULL
            /\ anchor'[loc[t].desc].state = SB_PARTIAL)
           => /\ pc'[t] = "LPush_load"
              /\ loc[t].desc \notin PartialSet
        /\ (pc[t] = "LPush_cas" /\ pc'[t] = "idle")
           => /\ partialList'.desc = loc[t].desc
              /\ loc[t].desc \notin PartialSet
              /\ PartialSet' = PartialSet \cup {loc[t].desc}

WakeInv ==
    LET m == GetBlockNum(sizeclass)
        bound == {d \in Descs : dheap[d] = "heap"}
    IN /\ pc[1] # "crashed"
       /\ ~hist.dupBlock
       /\ nmallocs > 1 =>
             /\ pc[1] \notin {"DA_load", "DA_read", "DA_cas", "DA_pushcas",
                              "NS_init", "NS_reg", "NS_cas"}
             /\ Cardinality(mapped) = 1
             /\ Cardinality(bound) = 1
       /\ (pc[1] = "idle" /\ nmallocs >= m /\ Cardinality(live) = m - 1) =>
             \A d \in bound :
                /\ partialList.desc = d
                /\ PartialSet = {d}
                /\ anchor[d].state = SB_PARTIAL
                /\ anchor[d].count = 1
                /\ active = NullActive
       /\ (pc[1] = "idle" /\ nmallocs > m /\ Cardinality(live) = m) =>
             /\ Cardinality(LivePtrs) = m
             /\ PartialSet = {}
             /\ \A b \in live :
                   /\ b[2] \in bound
                   /\ superblock[b[2]] <= b[1]
                   /\ b[1] < superblock[b[2]] + sizeclass.sbSize

C15_WakeUp == [][WakeAct]_vars /\ []WakeInv

\* the second malloc after a wake-up has returned, on a class of three blocks
C15_Witness ==
    /\ pc[1] = "idle"
    /\ GetBlockNum(sizeclass) = 3
    /\ nmallocs = 3 + WakeRounds
    /\ Cardinality(live) = 3
    /\ partialList.counter >= 2

(***************************************************************************)
(* C16: allocate-then-free law. With a single thread running, from every   *)
(* reachable state, p = malloc(n) immediately followed by free(p) leaves   *)
(* the state, avail and count of every descriptor's anchor, the contents   *)
(* of the partial list and the page map as they were before the malloc.    *)
(* C16_AllocFreeLaw states the law as the code keeps it; C16_LawAsStated   *)
(* states it as the claim reads.                                           *)
(***************************************************************************)
\* the malloc recorded and the free of its block have both returned
LawDone == hist.before.taken /\ Quiescent /\ live = hist.before.live

\* the blocks of descriptor d the active pointer act reserves
Reserved(act, d) == IF act.desc = d THEN act.credits + 1 ELSE 0

\* the malloc was a large one, or the active superblock served it and had
\* another block left after it
LawFromActive ==
    LET b == hist.before
    IN \/ b.large
       \/ /\ b.active.desc # 0
          /\ b.active.credits + b.anchor[b.active.desc].count > 0

AlignedLarge ==
    {b \in live : b[2] # 0 /\ dheap[b[2]] = "null" /\ b[1] # superblock[b[2]]}

AlignedLookup ==
    \A b \in AlignedLarge :
        /\ pagemap[PageOf(b[1])] = b[2]
        /\ pagemap[PageOf(superblock[b[2]])] = b[2]
        /\ SlotOf(b[1]) = SlotOf(superblock[b[2]])
        /\ SlotOf(b[1]) \in mapped

AlignedFree ==
    \A t \in Threads :
        /\ (pc[t] = "LF_free" /\ pc'[t] # "LF_free" /\ loc[t].ptr # loc[t].sb)
           => /\ pagemap'[PageOf(loc[t].ptr)] = 0
              /\ pagemap'[PageOf(loc[t].sb)] = 0
              /\ SlotOf(loc[t].sb) \in mapped
              /\ mapped' = mapped \ {SlotOf(loc[t].sb)}
              /\ pc'[t] = "DR_load"
              /\ loc'[t].desc = loc[t].desc
        /\ (pc[t] = "DR_cas" /\ pc'[t] = "idle" /\ loc[t].ptr # loc[t].sb)
           => /\ AvailDesc'.desc = loc[t].desc
              /\ loc[t].desc \in PoolSet'
              /\ mapped' = mapped

C17_LargeAligned == [][AlignedFree]_vars /\ []AlignedLookup

\* the free of an aligned pointer into a large region has cleared both pages,
\* given the region back and is retiring the descriptor
C17_Witness ==
    \E t \in Threads :
        /\ pc[t] = "DR_cas"
        /\ loc[t].op = "free"
        /\ loc[t].sb # 0
        /\ loc[t].ptr # loc[t].sb
        /\ PageOf(loc[t].ptr) # PageOf(loc[t].sb)
        /\ pagemap[PageOf(loc[t].ptr)] = 0

(***************************************************************************)
(* C18: UpdateActive installs (desc, credits - 1) into heap.active only if *)
(* heap.active is null at its CAS; when heap.active holds a descriptor the *)
(* step leaves heap.active as it is and goes on to return the credits to   *)
(* the anchor of desc: it never overwrites another descriptor's entry.     *)
(***************************************************************************)
ActiveKept ==
    \A t \in Threads :
        (pc[t] = "UA_cas" /\ pc'[t] # "UA_cas" /\ active # NullActive)
            => /\ active' = active
               /\ pc'[t] = "UA_aload"

C18_InstallOnlyIfNull == [][ActiveKept]_vars

(***************************************************************************)
(* C19: every successful compare-and-swap on the anchor of a descriptor    *)
(* (the pop of MallocFromActive, the reservation and the pop of            *)
(* MallocFromPartial, the credit return of UpdateActive, the push of free) *)
(* increments anchor.tag by 1 modulo 2^12.  C19_TagOnEveryCas states that; *)
(* C19_TagOnPops states what the code does: the two pops increment the     *)
(* tag, the three other compare-and-swaps leave it as it is.               *)
(***************************************************************************)
\* thread t takes the step of a compare-and-swap on an anchor, and it succeeds
AnchorCasWins(t, labels) ==
    /\ pc[t] \in labels
    /\ pc'[t] # pc[t]
    /\ anchor[loc[t].desc] = loc[t].oldAnchor
    /\ ~(pc[t] = "MP_rcas" /\ loc[t].oldAnchor.state = SB_EMPTY)

\* every such step adds delta to the tag
TagStep(labels, delta) ==
    \A t \in Threads :
        AnchorCasWins(t, labels)
            => anchor'[loc[t].desc].tag
                   = (anchor[loc[t].desc].tag + delta) % Pow2(TAG_BITS)

PushCounts ==
    \A t \in Threads :
        (pc[t] = "LPush_cas" /\ pc'[t] # "LPush_cas")
            => partialList'.counter = partialList.counter + 1

CounterGrows == partialList'.counter >= partialList.counter

C20_PushCounter == [][PushCounts /\ CounterGrows]_vars

(***************************************************************************)
(* C21: ABA-safe partial stack. Under any interleaving of ListPushPartial   *)
(* and ListPopPartial on one heap, a successful pop returns the descriptor *)
(* that is the head at its CAS and leaves that descriptor's successor      *)
(* chain as the list; no pushed descriptor leaves the list but by a pop    *)
(* that returns it, and no descriptor comes onto the list but by a push.   *)
(***************************************************************************)
\* thread t takes the successful CAS of ListPopPartial
PopWins(t) == pc[t] = "LP_cas" /\ pc'[t] = "MP_aload"

\* thread t takes the successful CAS of ListPushPartial
PushWins(t) == pc[t] = "LPush_cas" /\ pc'[t] # "LPush_cas"

StackAct ==
    /\ \A t \in DOMAIN pc :
          PopWins(t) => /\ PartialSeq # <<>>
                        /\ loc'[t].desc = Head(PartialSeq)
                        /\ PartialSeq' = Tail(PartialSeq)
    /\ \A t \in DOMAIN pc :
          PushWins(t) => PartialSeq' = <<loc[t].desc>> \o PartialSeq
    /\ PartialSeq' # PartialSeq => \E t \in DOMAIN pc : PopWins(t) \/ PushWins(t)

C21_StackAbaSafe == [][StackAct]_vars

(***************************************************************************)
(* C22: from the credit CAS of MallocFromActive, or the reservation CAS of *)
(* MallocFromPartial, until the call returns its block, the anchor of the  *)
(* reserved descriptor is not EMPTY, its superblock has not been passed to *)
(* PageFree (nor is a free about to pass it) and the descriptor is neither *)
(* in the descriptor pool nor being retired, whatever the other threads    *)
(* free meanwhile.                                                         *)
(***************************************************************************)
\* thread u is in DescRetire(d)
Retiring(u, d) == pc[u] \in {"DR_load", "DR_cas"} /\ loc[u].desc = d

C22_ReservationKept ==
    \A t \in DOMAIN pc :
        \A d \in Descs :
            MallocHolds(t, d) =>
                /\ anchor[d].state # SB_EMPTY
                /\ SlotOf(superblock[d]) \in mapped
                /\ \A pg \in SbPages(superblock[d]) : pagemap[pg] = d
                /\ d \notin PoolSet
                /\ \A u \in DOMAIN pc :
                      /\ ~Retiring(u, d)
                      /\ ~(pc[u] = "F_empty" /\ loc[u].desc = d)

\* a thread holds the last credit of a superblock, read its anchor, and a
\* free of another thread has since put back the last block in use: only
\* the reservation keeps the superblock from being empty
C22_Witness ==
    \E t \in Threads :
        LET d == loc[t].desc
        IN /\ pc[t] = "MA_acas"
           /\ MallocHolds(t, d)
           /\ anchor[d] # loc[t].oldAnchor
           /\ Users(d) = 0
           /\ active.desc # d
           /\ anchor[d].count = maxcount[d] - 1

(***************************************************************************)
(* C23: the free whose anchor CAS produced EMPTY has, when it returns,     *)
(* unregistered the pages of the superblock, given the superblock back to  *)
(* the page provider and retired the descriptor to the descriptor pool.    *)
(***************************************************************************)
\* the step by which the free that emptied a superblock returns
EmptyFreeReturns(t) == pc[t] = "F_empty" /\ pc'[t] = "idle"

EmptyFreeAct ==
    \A t \in DOMAIN pc :
        EmptyFreeReturns(t) =>
            /\ \A pg \in SbPages(loc[t].sb) : pagemap'[pg] = 0
            /\ SlotOf(loc[t].sb) \notin mapped'
            /\ loc[t].desc \in Chain(nextFree', AvailDesc'.desc, Cardinality(Descs))

C23_EmptyFreeRetires == [][EmptyFreeAct]_vars

(***************************************************************************)
(* C24: every anchor value MallocFromPartial reads in its reservation loop *)
(* is EMPTY, or PARTIAL with count >= 1, never ACTIVE or FULL; the credits *)
(* it computes are min(count - 1, CREDITS_MAX) without underflow, and the  *)
(* reservation takes credits + 1 blocks, no more than count.               *)
(***************************************************************************)
\* the anchor values a thread in the reservation loop has read
ReadsPartial ==
    \A t \in DOMAIN pc :
        pc[t] = "MP_rcas" =>
            \/ loc[t].oldAnchor.state = SB_EMPTY
            \/ /\ loc[t].oldAnchor.state = SB_PARTIAL
               /\ loc[t].oldAnchor.count >= 1

\* the step by which the reservation CAS succeeds
ReserveAct ==
    \A t \in DOMAIN pc :
        (pc[t] = "MP_rcas" /\ pc'[t] = "MP_aload2") =>
            LET d == loc[t].desc
            IN /\ loc'[t].credits = Min(anchor[d].count - 1, CREDITS_MAX)
               /\ loc'[t].credits >= 0
               /\ loc'[t].credits + 1 <= anchor[d].count
               /\ anchor'[d].count = anchor[d].count - (loc'[t].credits + 1)

C24_PartialReserve == []ReadsPartial /\ [][ReserveAct]_vars
====
